---- MODULE Spec2Model ----
(***************************************************************************)
(* Transaction reconstruction scripts of the PDF2EXCEL repository:         *)
(*   root    src/01_consolidate.py            clean_bank_statement_csv     *)
(*   canara  project canara/02_consolidate.py clean_bank_statement_csv     *)
(*   merge   project hdfc/02_mergenarration.py merge_narration_rows        *)
(*   shift   project hdfc/03_shifthdfc.py     fix_csv_data_shift           *)
(*   bal     project hdfc/04_closingbal.py    fix_balance_column_shift     *)
(*   kotak   project kotak/mergenarr.py                                    *)
(*                          merge_narration_and_remove_empty_rows          *)
(*   app     project hdfc, kotak, canara app.py   extract_and_process      *)
(*   cleancsv project kotak/01_cleancsv.py                                 *)
(*                          remove_split_repeating_headers                 *)
(*   branch  project canara/03_branchcode.py  clean_entry                  *)
(*                                                                         *)
(* A cell text is a sequence of tokens.  " " is one blank character, ","   *)
(* a thousands separator, "1".."9" and "0" numerals, "D" and "E" calendar  *)
(* date literals such as 01-04-2024, every other token a word.  The float  *)
(* NaN that pandas puts in an empty cell is the value NaN; str() of it is  *)
(* the word "nan".                                                         *)
(***************************************************************************)
EXTENDS Integers, Sequences, FiniteSets, TLC

VARIABLES prog, df, columns, pc, idx, header_found, cleaned_df, current_row,
          consolidated_rows, df_corrected, output, status, orphans,
          files, requests

vars == <<prog, df, columns, pc, idx, header_found, cleaned_df, current_row,
          consolidated_rows, df_corrected, output, status, orphans,
          files, requests>>

(***************************************************************************)
(* Bounds of the model.                                                    *)
(***************************************************************************)
MaxRows == 4

MaxFixRows == 2

(***************************************************************************)
(* Cell texts.                                                             *)
(***************************************************************************)
NaN == <<"NaN">>

isna(v) == v = NaN

\* the text of a cell, the empty text for a missing one
Text(v) == IF isna(v) THEN <<>> ELSE v

\* str(value): the text of a cell; the float NaN prints as the word nan.
Str(v) == IF isna(v) THEN <<"nan">> ELSE v

RECURSIVE LStrip(_)
LStrip(t) == IF t # <<>> /\ Head(t) = " " THEN LStrip(Tail(t)) ELSE t

RECURSIVE RStrip(_)
RStrip(t) ==
    IF t # <<>> /\ t[Len(t)] = " " THEN RStrip(SubSeq(t, 1, Len(t) - 1)) ELSE t

\* str.strip()
Strip(t) == RStrip(LStrip(t))

\* str.lower(), token by token
LowerTok(k) ==
    CASE k = "Date" -> "date"
      [] k = "Particulars" -> "particulars"
      [] k = "Withdrawals" -> "withdrawals"
      [] k = "Deposits" -> "deposits"
      [] k = "Balance" -> "balance"
      [] k = "None" -> "none"
      [] k = "NONE" -> "none"
      [] k = "NAN" -> "nan"
      [] k = "Nan" -> "nan"
      [] k = "Narration" -> "narration"
      [] k = "Chq./Ref.No." -> "chq./ref.no."
      [] k = "Value" -> "value"
      [] k = "Dt" -> "dt"
      [] k = "Withdrawal" -> "withdrawal"
      [] k = "Deposit" -> "deposit"
      [] k = "Amt." -> "amt."
      [] k = "Closing" -> "closing"
      [] k = "Remarks" -> "remarks"
      [] OTHER -> k

Lower(t) == [i \in DOMAIN t |-> LowerTok(t[i])]

\* keyword in word, for lower-case words
WordHas(word, keyword) ==
    \/ word = keyword
    \/ <<word, keyword>> \in { <<"particulars", "particular">>,
                               <<"withdrawals", "withdrawal">>,
                               <<"deposits", "deposit">>,
                               <<"chq./ref.no.", "chq">>,
                               <<"chq./ref.no.", "ref">>,
                               <<"amt.", "amt">> }

\* keyword in text
Contains(t, keyword) == \E i \in DOMAIN t : WordHas(t[i], keyword)

\* str.replace(ch, '')
RECURSIVE Remove(_, _)
Remove(t, ch) ==
    IF t = <<>> THEN <<>>
    ELSE IF Head(t) = ch THEN Remove(Tail(t), ch)
    ELSE <<Head(t)>> \o Remove(Tail(t), ch)

\* str.replace(r'\s+', ' ', regex=True)
RECURSIVE Collapse(_)
Collapse(t) ==
    IF Len(t) < 2 THEN t
    ELSE IF t[1] = " " /\ t[2] = " " THEN Collapse(Tail(t))
    ELSE <<Head(t)>> \o Collapse(Tail(t))

Digits == {"0", "1", "2", "3", "4", "5", "9"}

\* float(text) succeeds: surrounding blanks are ignored, a numeral follows
IsFloat(t) ==
    LET s == Strip(t) IN s # <<>> /\ \A i \in DOMAIN s : s[i] \in Digits

\* float(text) of Python succeeds: a numeral, or one of the words that float
\* takes for a special value, in any letter case
FloatParses(t) ==
    IsFloat(t) \/ Lower(Strip(t)) \in {<<"nan">>, <<"inf">>, <<"infinity">>}

DateLiterals == {"D", "E"}

\* re.match(pattern, text) for one of the date patterns: anchored at the start
MatchesDate(t) == t # <<>> /\ Head(t) \in DateLiterals

(***************************************************************************)
(* The glossary's DateLike: the trimmed text begins with a calendar date.  *)
(***************************************************************************)
DateLike(v) == ~isna(v) /\ Strip(v) # <<>> /\ Head(Strip(v)) \in {"D", "E"}

\* A field is empty when nothing but blanks is in it.
EmptyField(v) == isna(v) \/ Strip(v) = <<>>

(***************************************************************************)
(* Tables.  A row of a data frame carries the position it had in the file  *)
(* (src; pandas keeps it as the row label until reset_index relabels it)   *)
(* and its cells.                                                          *)
(***************************************************************************)
Indexed(table) == [i \in DOMAIN table |-> [src |-> i, cells |-> table[i]]]

Cells(rows) == [i \in DOMAIN rows |-> rows[i].cells]

Width(table) == Len(table[1])

\* Index.is_unique of a list of column labels
HasDuplicates(names) ==
    \E i, j \in DOMAIN names : i < j /\ names[i] = names[j]

\* a record put in front of the list instead of behind it
EmitInFront(rows, row) == <<row>> \o rows

\* list.append
Emit(rows, row) == Append(rows, row)

(***************************************************************************)
(* src/01_consolidate.py                                                   *)
(***************************************************************************)
expected_columns ==
    << <<"Date">>, <<"Particulars">>, <<"Withdrawals">>, <<"Deposits">>,
       <<"Balance">> >>

header_keywords == {"date", "particular", "withdrawal", "deposit", "balance"}

\* the header test of the first pass
RootIsHeader(row) ==
    /\ Len(row) >= Len(expected_columns)
    /\ LET row_values ==
               [j \in 1..Len(expected_columns) |-> Lower(Strip(Str(row[j])))]
           matching_keywords ==
               Cardinality({k \in header_keywords :
                              \E j \in DOMAIN row_values : Contains(row_values[j], k)})
       IN matching_keywords >= 3

RootHeaderFound(table) == \E i \in DOMAIN table : RootIsHeader(table[i])

\* cleaned_rows: the first header and every row that is no header
RootCleanedRows(table) ==
    LET Keep(r) == \/ ~RootIsHeader(r.cells)
                   \/ \A j \in 1..(r.src - 1) : ~RootIsHeader(table[j])
    IN SelectSeq(Indexed(table), Keep)

RootCleanColumn(col) ==
    LET col_str == Strip(Str(col)) IN
    IF Contains(Lower(col_str), "date") THEN <<"Date">>
    ELSE IF Contains(Lower(col_str), "particular") THEN <<"Particulars">>
    ELSE IF Contains(Lower(col_str), "withdrawal") THEN <<"Withdrawals">>
    ELSE IF Contains(Lower(col_str), "deposit") THEN <<"Deposits">>
    ELSE IF Contains(Lower(col_str), "balance") THEN <<"Balance">>
    ELSE col_str

ExtraName(i) == <<"Extra_", i - 1>>

\* expected_columns + Extra_i, or a prefix of expected_columns
RootDefaultColumns(width) ==
    [i \in 1..width |->
        IF i <= Len(expected_columns) THEN expected_columns[i]
        ELSE ExtraName(i)]

\* the labels of cleaned_df
RootColumns(table) ==
    IF RootHeaderFound(table)
    THEN [i \in 1..Width(table) |-> RootCleanColumn(RootCleanedRows(table)[1].cells[i])]
    ELSE RootDefaultColumns(Width(table))

\* the rows of cleaned_df: the first row is dropped when a header was found
RootDataRows(table) ==
    IF RootHeaderFound(table) THEN Tail(RootCleanedRows(table))
    ELSE RootCleanedRows(table)

\* any text in the date cell taken for a date
RootIsDateLikeAnyText(value) == ~isna(value) /\ Strip(Str(value)) # <<>>

RootIsDateLike(value) ==
    /\ ~isna(value)
    /\ value # <<>>
    /\ LET value_str == Strip(Str(value)) IN
       /\ value_str # <<>>
       /\ Lower(value_str) \notin {<<"nan">>, <<"none">>}
       /\ MatchesDate(value_str)

\* the test without the exclusion of the words nan and none
RootIsAmountLikeUnfiltered(value) ==
    /\ ~isna(value)
    /\ value # <<>>
    /\ LET value_str == Remove(Remove(Strip(Str(value)), ","), " ") IN
       /\ value_str # <<>>
       /\ FloatParses(value_str)

RootIsAmountLike(value) ==
    /\ ~isna(value)
    /\ value # <<>>
    /\ LET value_str == Remove(Remove(Strip(Str(value)), ","), " ") IN
       /\ value_str # <<>>
       /\ Lower(value_str) \notin {<<"nan">>, <<"none">>}
       /\ FloatParses(value_str)

\* the merge with the emptiness test of the amount columns left out
RootMergeCellOverwriting(i, cur, cell) ==
    IF ~isna(cell) /\ Strip(Str(cell)) # <<>> /\ Lower(Strip(Str(cell))) # <<"nan">>
    THEN LET current_cell_value == Strip(Str(cell)) IN
         IF i = 2
         THEN IF ~isna(cur) /\ Strip(Str(cur)) # <<>>
              THEN Strip(Str(cur)) \o <<" ">> \o current_cell_value
              ELSE current_cell_value
         ELSE IF i >= 3
         THEN IF RootIsAmountLike(cell) THEN current_cell_value ELSE cur
         ELSE IF isna(cur) \/ Strip(Str(cur)) = <<>>
              THEN current_cell_value
              ELSE cur
    ELSE cur

\* one cell of a continuation row merged into cell i of the open record
RootMergeCell(i, cur, cell) ==
    IF ~isna(cell) /\ Strip(Str(cell)) # <<>> /\ Lower(Strip(Str(cell))) # <<"nan">>
    THEN LET current_cell_value == Strip(Str(cell)) IN
         IF i = 2
         THEN IF ~isna(cur) /\ Strip(Str(cur)) # <<>>
              THEN Strip(Str(cur)) \o <<" ">> \o current_cell_value
              ELSE current_cell_value
         ELSE IF i >= 3
         THEN IF RootIsAmountLike(cell) /\ (isna(cur) \/ Strip(Str(cur)) = <<>>)
              THEN current_cell_value
              ELSE cur
         ELSE IF isna(cur) \/ Strip(Str(cur)) = <<>>
              THEN current_cell_value
              ELSE cur
    ELSE cur

RootMergeRow(cur, row) ==
    [cur EXCEPT !.cells = [i \in DOMAIN cur.cells |->
                              RootMergeCell(i, cur.cells[i], row.cells[i])]]

\* final_df['Particulars'].astype(str).str.replace(r'\s+', ' ').str.strip()
RootFinalParticulars(v) == Strip(Collapse(Str(v)))

\* astype(str).str.replace(',', '').str.strip(), then '', 'nan', 'None' -> NaN
RootFinalAmount(v) ==
    LET s == Strip(Remove(Str(v), ",")) IN
    IF s \in {<<>>, <<"nan">>, <<"None">>} THEN NaN ELSE s

\* the threshold met by a column with exactly 80% of its cells NaN
RootDropsColumnAtEighty(rows, i) ==
    /\ i > Len(expected_columns)
    /\ LET empty_count == Cardinality({r \in DOMAIN rows : isna(rows[r].cells[i])})
       IN 10 * empty_count >= 8 * Len(rows)

\* an Extra_ column goes when more than 80% of its cells are NaN
RootDropsColumn(rows, i) ==
    /\ i > Len(expected_columns)
    /\ LET empty_count == Cardinality({r \in DOMAIN rows : isna(rows[r].cells[i])})
       IN 10 * empty_count > 8 * Len(rows)

RootFinalCells(rows, cells) ==
    LET kept == SelectSeq([i \in DOMAIN cells |-> i],
                          LAMBDA i : ~RootDropsColumn(rows, i))
    IN [k \in DOMAIN kept |->
          LET i == kept[k] IN
          IF i = 2 THEN RootFinalParticulars(cells[i])
          ELSE IF i \in 3..5 THEN RootFinalAmount(cells[i])
          ELSE cells[i]]

\* Step 3: rename, clean the text columns, keep the rows with a date
RootFinalDf(rows) ==
    SelectSeq([r \in DOMAIN rows |->
                  [rows[r] EXCEPT !.cells = RootFinalCells(rows, rows[r].cells)]],
              LAMBDA rec : RootIsDateLike(rec.cells[1]))

\* lines 131-173: one row of cleaned_df taken by the consolidation loop;
\* cur is the open record (none or one), out the records closed so far
RootStep(cur, out, row) ==
    IF RootIsDateLike(row.cells[1])
    THEN [cur |-> <<row>>,
          out |-> IF cur # <<>> THEN Emit(out, cur[1]) ELSE out]
    ELSE IF cur # <<>>
    THEN [cur |-> <<RootMergeRow(cur[1], row)>>, out |-> out]
    ELSE [cur |-> cur, out |-> out]

\* the open record forgotten instead of closed
CloseLastForgotten(cur, out) == out

\* lines 175-177: the last open record is closed
CloseLast(cur, out) == IF cur # <<>> THEN Emit(out, cur[1]) ELSE out

RECURSIVE RootConsolidate(_, _, _)
RootConsolidate(rows, cur, out) ==
    IF rows = <<>> THEN CloseLast(cur, out)
    ELSE LET s == RootStep(cur, out, Head(rows))
         IN RootConsolidate(Tail(rows), s.cur, s.out)

\* what one call writes: the cells of the output table, or nothing
\* (no record found, or pd.DataFrame raising on duplicate column labels;
\* read_csv raises on an empty file)
RootRun(table) ==
    IF table = <<>> THEN <<"nothing">>
    ELSE LET rows == RootConsolidate(RootDataRows(table), <<>>, <<>>) IN
         IF rows = <<>> \/ HasDuplicates(RootColumns(table))
         THEN <<"nothing">>
         ELSE <<"written", Cells(RootFinalDf(rows))>>

(***************************************************************************)
(* The tables read by src/01_consolidate.py: pd.read_csv(header=None)      *)
(* turns an empty cell into NaN and keeps every other text as it is.       *)
(***************************************************************************)
RootHeaderRow ==
    << <<"Date">>, <<"Particulars">>, <<"Withdrawals">>, <<"Deposits">>,
       <<"Balance">> >>

RootDateRows ==
    { << <<"D">>, <<"a">>, <<"1">>, NaN, <<"2">> >>,
      << <<"D">>, NaN, NaN, NaN, <<"2">> >>,
      << <<" ", "D">>, <<"a", " ">>, <<" ">>, NaN, NaN >> }

RootOtherRows ==
    { << NaN, <<"c", " ", " ", "c">>, <<"3">>, NaN, NaN >>,
      << NaN, NaN, <<"x">>, <<"4">>, <<"5", ",", "0">> >>,
      << <<"e">>, <<"b">>, <<"9">>, NaN, NaN >> }

RootRows == {RootHeaderRow} \cup RootDateRows \cup RootOtherRows

Tables(rows, n) == UNION {[1..k -> rows] : k \in 1..n}

\* the state before a script has read its input
Fresh ==
    /\ pc = "start"
    /\ idx = 0
    /\ header_found = FALSE
    /\ cleaned_df = <<>>
    /\ current_row = <<>>
    /\ consolidated_rows = <<>>
    /\ df_corrected = <<>>
    /\ output = <<>>
    /\ status = "running"
    /\ orphans = {}
    /\ files = <<>>
    /\ requests = <<>>

InitRoot ==
    /\ prog = "root"
    /\ df \in Tables(RootRows, MaxRows)
    /\ columns = <<>>
    /\ Fresh

(***************************************************************************)
(* clean_bank_statement_csv, src/01_consolidate.py                         *)
(***************************************************************************)
\* Step 1 (lines 21-85): duplicate headers removed, the column labels set
RootRemoveHeaders ==
    /\ prog = "root" /\ pc = "start"
    /\ header_found' = RootHeaderFound(df)
    /\ columns' = RootColumns(df)
    /\ cleaned_df' = RootDataRows(df)
    /\ idx' = 1
    /\ pc' = "consolidate"
    /\ UNCHANGED <<files, requests, prog, df, current_row, consolidated_rows, df_corrected,
                   output, status, orphans>>

\* lines 135-143: a row with a date closes the open record and opens one
RootDateRow ==
    /\ prog = "root" /\ pc = "consolidate" /\ idx <= Len(cleaned_df)
    /\ RootIsDateLike(cleaned_df[idx].cells[1])
    /\ consolidated_rows' =
           RootStep(current_row, consolidated_rows, cleaned_df[idx]).out
    /\ current_row' = RootStep(current_row, consolidated_rows, cleaned_df[idx]).cur
    /\ idx' = idx + 1
    /\ UNCHANGED <<files, requests, prog, df, columns, pc, header_found, cleaned_df,
                   df_corrected, output, status, orphans>>

\* lines 144-167: a row without a date is merged into the open record
RootContinuationRow ==
    /\ prog = "root" /\ pc = "consolidate" /\ idx <= Len(cleaned_df)
    /\ ~RootIsDateLike(cleaned_df[idx].cells[1])
    /\ current_row # <<>>
    /\ current_row' = RootStep(current_row, consolidated_rows, cleaned_df[idx]).cur
    /\ idx' = idx + 1
    /\ UNCHANGED <<files, requests, prog, df, columns, pc, header_found, cleaned_df,
                   consolidated_rows, df_corrected, output, status, orphans>>

\* lines 168-173: a row without a date and no open record is skipped
RootOrphanRow ==
    /\ prog = "root" /\ pc = "consolidate" /\ idx <= Len(cleaned_df)
    /\ ~RootIsDateLike(cleaned_df[idx].cells[1])
    /\ current_row = <<>>
    /\ orphans' = orphans \cup {cleaned_df[idx].src}
    /\ idx' = idx + 1
    /\ UNCHANGED <<files, requests, prog, df, columns, pc, header_found, cleaned_df, current_row,
                   consolidated_rows, df_corrected, output, status>>

\* lines 175-261: the last record, then the final data frame is written;
\* pd.DataFrame(consolidated_rows) raises on duplicate column labels
RootFinish ==
    /\ prog = "root" /\ pc = "consolidate" /\ idx > Len(cleaned_df)
    /\ LET rows == CloseLast(current_row, consolidated_rows)
       IN /\ consolidated_rows' = rows
          /\ IF rows = <<>>
             THEN output' = <<>> /\ status' = "none"
             ELSE IF HasDuplicates(columns)
             THEN output' = <<>> /\ status' = "error"
             ELSE output' = RootFinalDf(rows) /\ status' = "written"
    /\ current_row' = <<>>
    /\ pc' = "done"
    /\ UNCHANGED <<files, requests, prog, df, columns, idx, header_found, cleaned_df,
                   df_corrected, orphans>>

NextRoot ==
    \/ RootRemoveHeaders
    \/ RootDateRow
    \/ RootContinuationRow
    \/ RootOrphanRow
    \/ RootFinish

SpecRoot == InitRoot /\ [][NextRoot]_vars

(***************************************************************************)
(* project canara/scripts/02_consolidate.py                                *)
(***************************************************************************)
EXPECTED_COLUMNS ==
    << <<"Txn Date">>, <<"Value Date">>, <<"Cheque No.">>, <<"Description">>,
       <<"Branch Code">>, <<"Debit">>, <<"Credit">>, <<"Balance">> >>

CanaraIsDateLike(value) ==
    /\ ~isna(value)
    /\ value # <<>>
    /\ MatchesDate(Strip(Str(value)))

CanaraIsHeader(row) ==
    /\ Len(row) >= Len(EXPECTED_COLUMNS)
    /\ LET row_values ==
               [j \in 1..Len(EXPECTED_COLUMNS) |-> Strip(Str(row[j]))]
       IN \A c \in 1..4 :
              \E j \in DOMAIN row_values : row_values[j] = EXPECTED_COLUMNS[c]

CanaraCleanedRows(table) ==
    LET Keep(r) == \/ ~CanaraIsHeader(r.cells)
                   \/ \A j \in 1..(r.src - 1) : ~CanaraIsHeader(table[j])
    IN SelectSeq(Indexed(table), Keep)

\* cleaned_df.columns = cleaned_df.iloc[0]
CanaraColumns(table) == CanaraCleanedRows(table)[1].cells

\* cleaned_df.drop(cleaned_df.index[0])
CanaraDataRows(table) == Tail(CanaraCleanedRows(table))

CanaraMergeCell(i, cur, cell) ==
    IF ~isna(cell) /\ Strip(Str(cell)) # <<>>
    THEN IF i = 4 /\ ~isna(cur)
         THEN Str(cur) \o <<" ">> \o Str(cell)
         ELSE IF isna(cur) \/ Strip(Str(cur)) = <<>>
         THEN cell
         ELSE cur
    ELSE cur

CanaraMergeRow(cur, row) ==
    [cur EXCEPT !.cells = [i \in DOMAIN cur.cells |->
                              CanaraMergeCell(i, cur.cells[i], row.cells[i])]]

\* missing trailing columns are added as '', Description is cleaned
CanaraFinalCells(cells) ==
    [i \in 1..Len(EXPECTED_COLUMNS) |->
        IF i > Len(cells) THEN <<>>
        ELSE IF i = 4 THEN Strip(Collapse(Str(cells[i])))
        ELSE cells[i]]

CanaraFinalDf(rows) ==
    SelectSeq([r \in DOMAIN rows |->
                  [rows[r] EXCEPT !.cells = CanaraFinalCells(rows[r].cells)]],
              LAMBDA rec : CanaraIsDateLike(rec.cells[1]))

CanaraHeaderRow == EXPECTED_COLUMNS

CanaraDateRows ==
    { << <<"D">>, <<"E">>, <<"7">>, <<"a">>, <<"3">>, <<"1">>, NaN, <<"2">> >>,
      << <<"D">>, <<"D">>, NaN, NaN, NaN, NaN, <<"4">>, <<"2">> >>,
      << <<"D">>, NaN, NaN, <<" ">>, NaN, <<" ">>, NaN, NaN >> }

CanaraOtherRows ==
    { << NaN, NaN, NaN, <<"c", " ", " ", "c">>, NaN, <<"5">>, <<"x">>, NaN >>,
      << <<"e">>, NaN, <<"8">>, <<"b">>, NaN, <<"9">>, NaN, NaN >> }

CanaraRows == {CanaraHeaderRow} \cup CanaraDateRows \cup CanaraOtherRows

InitCanara ==
    /\ prog = "canara"
    /\ df \in Tables(CanaraRows, MaxRows)
    /\ columns = <<>>
    /\ Fresh

(***************************************************************************)
(* clean_bank_statement_csv, project canara/scripts/02_consolidate.py      *)
(***************************************************************************)
\* Step 1 (lines 31-58): the first row of cleaned_df becomes the labels
CanaraRemoveHeaders ==
    /\ prog = "canara" /\ pc = "start"
    /\ header_found' = \E i \in DOMAIN df : CanaraIsHeader(df[i])
    /\ columns' = CanaraColumns(df)
    /\ cleaned_df' = CanaraDataRows(df)
    /\ idx' = 1
    /\ pc' = "consolidate"
    /\ UNCHANGED <<files, requests, prog, df, current_row, consolidated_rows, df_corrected,
                   output, status, orphans>>

\* lines 67-70
CanaraDateRow ==
    /\ prog = "canara" /\ pc = "consolidate" /\ idx <= Len(cleaned_df)
    /\ CanaraIsDateLike(cleaned_df[idx].cells[1])
    /\ consolidated_rows' =
           CloseLast(current_row, consolidated_rows)
    /\ current_row' = <<cleaned_df[idx]>>
    /\ idx' = idx + 1
    /\ UNCHANGED <<files, requests, prog, df, columns, pc, header_found, cleaned_df,
                   df_corrected, output, status, orphans>>

\* lines 71-78
CanaraContinuationRow ==
    /\ prog = "canara" /\ pc = "consolidate" /\ idx <= Len(cleaned_df)
    /\ ~CanaraIsDateLike(cleaned_df[idx].cells[1])
    /\ current_row # <<>>
    /\ current_row' = <<CanaraMergeRow(current_row[1], cleaned_df[idx])>>
    /\ idx' = idx + 1
    /\ UNCHANGED <<files, requests, prog, df, columns, pc, header_found, cleaned_df,
                   consolidated_rows, df_corrected, output, status, orphans>>

\* lines 71-72: without an open record the row is passed over
CanaraOrphanRow ==
    /\ prog = "canara" /\ pc = "consolidate" /\ idx <= Len(cleaned_df)
    /\ ~CanaraIsDateLike(cleaned_df[idx].cells[1])
    /\ current_row = <<>>
    /\ orphans' = orphans \cup {cleaned_df[idx].src}
    /\ idx' = idx + 1
    /\ UNCHANGED <<files, requests, prog, df, columns, pc, header_found, cleaned_df, current_row,
                   consolidated_rows, df_corrected, output, status>>

\* lines 80-116: no record, duplicate labels or more than eight columns end
\* the script with an error exit and no output file
CanaraFinish ==
    /\ prog = "canara" /\ pc = "consolidate" /\ idx > Len(cleaned_df)
    /\ LET rows == CloseLast(current_row, consolidated_rows)
       IN /\ consolidated_rows' = rows
          /\ IF \/ rows = <<>>
                \/ HasDuplicates(columns)
                \/ Len(columns) > Len(EXPECTED_COLUMNS)
             THEN output' = <<>> /\ status' = "error"
             ELSE output' = CanaraFinalDf(rows) /\ status' = "written"
    /\ current_row' = <<>>
    /\ pc' = "done"
    /\ UNCHANGED <<files, requests, prog, df, columns, idx, header_found, cleaned_df,
                   df_corrected, orphans>>

NextCanara ==
    \/ CanaraRemoveHeaders
    \/ CanaraDateRow
    \/ CanaraContinuationRow
    \/ CanaraOrphanRow
    \/ CanaraFinish

(***************************************************************************)
(* The two consolidators, one run of one of them on one table.             *)
(***************************************************************************)
Init == InitRoot \/ InitCanara

Next == NextRoot \/ NextCanara

Spec == Init /\ [][Next]_vars

(***************************************************************************)
(* project hdfc/scripts: the tables are read with dtype=str and            *)
(* keep_default_na=False; the first line gives the column labels, an empty *)
(* cell is the empty text.                                                 *)
(***************************************************************************)
HdfcColumns ==
    << <<"Date">>, <<"Narration">>, <<"Chq./Ref.No.">>, <<"Value", " ", "Dt">>,
       <<"Withdrawal", " ", "Amt.">>, <<"Deposit", " ", "Amt.">>,
       <<"Closing", " ", "Balance">> >>

\* the last of the positions, 0 when there is none
LastWhere(positions) ==
    IF positions # {}
    THEN CHOOSE i \in positions : \A j \in positions : j <= i
    ELSE 0

\* the first of the positions, 0 when there is none
FirstWhere(positions) ==
    IF positions # {}
    THEN CHOOSE i \in positions : \A j \in positions : i <= j
    ELSE 0

(***************************************************************************)
(* merge_narration_rows, project hdfc/scripts/02_mergenarration.py         *)
(***************************************************************************)
MergeIsDateCol(col) ==
    LET col_lower == Strip(Lower(col)) IN
    Contains(col_lower, "date") /\ ~Contains(col_lower, "value")

MergeIsNarrationCol(col) ==
    LET col_lower == Strip(Lower(col)) IN
    /\ ~MergeIsDateCol(col)
    /\ \/ Contains(col_lower, "narration")
       \/ Contains(col_lower, "description")
       \/ Contains(col_lower, "particulars")

date_col(names) == LastWhere({i \in DOMAIN names : MergeIsDateCol(names[i])})

narration_col(names) == LastWhere({i \in DOMAIN names : MergeIsNarrationCol(names[i])})

is_empty_date(date_val) ==
    \/ isna(date_val)
    \/ LET date_str == Strip(Str(date_val)) IN
       date_str = <<>> \/ Lower(date_str) \in {<<"nan">>, <<"null">>, <<"none">>}

clean_narration(narr_val) == IF isna(narr_val) THEN <<>> ELSE Strip(Str(narr_val))

\* lines 122-129: the narration of a continuation row joins the open record's
MergeNarration(cur, row, n) ==
    LET narr_val == clean_narration(row.cells[n])
        current_narration == clean_narration(cur.cells[n])
    IN IF narr_val # <<>>
       THEN [cur EXCEPT !.cells[n] =
                IF current_narration # <<>>
                THEN current_narration \o <<" ">> \o narr_val
                ELSE narr_val]
       ELSE cur

MergeRows ==
    { << <<"D">>, <<"a">>, <<>>, <<"D">>, <<"1">>, <<>>, <<"2">> >>,
      << <<"E">>, <<>>, <<"r">>, <<"E">>, <<>>, <<>>, <<>> >>,
      << <<>>, <<"b">>, <<>>, <<>>, <<>>, <<>>, <<>> >>,
      << <<" ">>, <<" ", "c">>, <<>>, <<>>, <<"3">>, <<>>, <<>> >>,
      << <<"e">>, <<"b">>, <<>>, <<>>, <<>>, <<>>, <<>> >>,
      << <<"nan">>, <<>>, <<>>, <<>>, <<>>, <<>>, <<"4">> >> }

InitMerge ==
    /\ prog = "merge"
    /\ df \in Tables(MergeRows, MaxRows)
    /\ columns = <<>>
    /\ Fresh

\* lines 54-87: the labels are stripped; both columns must be found
MergeStart ==
    /\ prog = "merge" /\ pc = "start"
    /\ columns' = [i \in DOMAIN HdfcColumns |-> Strip(HdfcColumns[i])]
    /\ cleaned_df' = Indexed(df)
    /\ idx' = 1
    /\ IF date_col(columns') = 0 \/ narration_col(columns') = 0
       THEN pc' = "done" /\ status' = "error"
       ELSE pc' = "merge" /\ status' = status
    /\ UNCHANGED <<files, requests, prog, df, header_found, current_row, consolidated_rows,
                   df_corrected, output, orphans>>

\* lines 120-132: with an open record and a narration the row is merged
MergeContinuationRow ==
    /\ prog = "merge" /\ pc = "merge" /\ idx <= Len(cleaned_df)
    /\ is_empty_date(cleaned_df[idx].cells[date_col(columns)])
    /\ current_row # <<>>
    /\ current_row' =
           <<MergeNarration(current_row[1], cleaned_df[idx], narration_col(columns))>>
    /\ idx' = idx + 1
    /\ UNCHANGED <<files, requests, prog, df, columns, pc, header_found, cleaned_df,
                   consolidated_rows, df_corrected, output, status, orphans>>

\* lines 120-132: without an open record the row is passed over
MergeOrphanRow ==
    /\ prog = "merge" /\ pc = "merge" /\ idx <= Len(cleaned_df)
    /\ is_empty_date(cleaned_df[idx].cells[date_col(columns)])
    /\ current_row = <<>>
    /\ orphans' = orphans \cup {cleaned_df[idx].src}
    /\ idx' = idx + 1
    /\ UNCHANGED <<files, requests, prog, df, columns, pc, header_found, cleaned_df, current_row,
                   consolidated_rows, df_corrected, output, status>>

\* lines 133-140: any other row closes the open record and opens one
MergeNewRow ==
    /\ prog = "merge" /\ pc = "merge" /\ idx <= Len(cleaned_df)
    /\ ~is_empty_date(cleaned_df[idx].cells[date_col(columns)])
    /\ consolidated_rows' =
           CloseLast(current_row, consolidated_rows)
    /\ current_row' = <<cleaned_df[idx]>>
    /\ idx' = idx + 1
    /\ UNCHANGED <<files, requests, prog, df, columns, pc, header_found, cleaned_df,
                   df_corrected, output, status, orphans>>

\* lines 142-192: the last record, then processed_rows is written
MergeFinish ==
    /\ prog = "merge" /\ pc = "merge" /\ idx > Len(cleaned_df)
    /\ LET rows == CloseLast(current_row, consolidated_rows)
       IN /\ consolidated_rows' = rows
          /\ IF rows = <<>>
             THEN output' = <<>> /\ status' = "error"
             ELSE output' = rows /\ status' = "written"
    /\ current_row' = <<>>
    /\ pc' = "done"
    /\ UNCHANGED <<files, requests, prog, df, columns, idx, header_found, cleaned_df,
                   df_corrected, orphans>>

NextMerge ==
    \/ MergeStart
    \/ MergeContinuationRow
    \/ MergeOrphanRow
    \/ MergeNewRow
    \/ MergeFinish

(***************************************************************************)
(* The scripts that merge wrapped descriptions: the root consolidator and  *)
(* the HDFC narration merge.                                               *)
(***************************************************************************)
InitNarration == InitRoot \/ InitMerge

NextNarration == NextRoot \/ NextMerge

SpecNarration == InitNarration /\ [][NextNarration]_vars

(***************************************************************************)
(* What the next script reads from a written file: to_csv writes NaN as an *)
(* empty field, and read_csv(dtype=str, keep_default_na=False) reads that  *)
(* as the empty text.  A number is written and read back as its numeral.   *)
(***************************************************************************)
ReRead(table) ==
    [r \in DOMAIN table |-> [c \in DOMAIN table[r] |-> Text(table[r][c])]]

\* pd.to_numeric(errors="coerce") of one text: the number, NaN otherwise
ToNumeric(t) == IF IsFloat(t) THEN Strip(t) ELSE NaN

\* the number is zero
IsZero(t) == IsFloat(t) /\ \A i \in DOMAIN Strip(t) : Strip(t)[i] = "0"

(***************************************************************************)
(* fix_csv_data_shift, project hdfc/scripts/03_shifthdfc.py                *)
(***************************************************************************)
ShiftIsChqRef(col) == Contains(Lower(col), "chq") \/ Contains(Lower(col), "ref")

\* the position of the Chq/Ref column, 0 when there is none
chq_ref_pos(names) == FirstWhere({i \in DOMAIN names : ShiftIsChqRef(names[i])})

\* empty_chq_mask for one row
ShiftDetected(cells, pos) == Strip(cells[pos]) = <<>> \/ isna(cells[pos])

\* a repair that leaves the last column as it was
ShiftRowKeepingLast(cells, pos) ==
    [c \in DOMAIN cells |->
        IF c >= pos /\ c < Len(cells) THEN cells[c + 1] ELSE cells[c]]

\* lines 37-46: the cells right of the Chq/Ref column move one to the left
ShiftRow(cells, pos) ==
    [c \in DOMAIN cells |->
        IF c = Len(cells) THEN <<>>
        ELSE IF c >= pos THEN cells[c + 1]
        ELSE cells[c]]

numeric_columns ==
    { <<"Withdrawal", " ", "Amt.">>, <<"Deposit", " ", "Amt.">>,
      <<"Closing", " ", "Balance">> }

\* lines 52-57: commas removed, '' replaced by '0', then pd.to_numeric
ShiftNumeric(v) ==
    LET s == Remove(v, ",") IN ToNumeric(IF s = <<>> THEN <<"0">> ELSE s)

ShiftCleanRow(names, cells) ==
    [c \in DOMAIN cells |->
        IF names[c] \in numeric_columns THEN ShiftNumeric(cells[c]) ELSE cells[c]]

ShiftCleanup(names, table) ==
    [r \in DOMAIN table |-> ShiftCleanRow(names, table[r])]

\* what one call writes for a table: the cells of the output, or nothing
ShiftRun(names, table) ==
    IF chq_ref_pos(names) = 0 THEN <<"nothing">>
    ELSE <<"written",
           ShiftCleanup(names,
               [r \in DOMAIN table |->
                   IF ShiftDetected(table[r], chq_ref_pos(names))
                   THEN ShiftRow(table[r], chq_ref_pos(names))
                   ELSE table[r]])>>

ShiftLayouts ==
    { << <<"Date">>, <<"Chq./Ref.No.">>, <<"Value", " ", "Dt">>,
         <<"Withdrawal", " ", "Amt.">>, <<"Closing", " ", "Balance">> >>,
      << <<"Date">>, <<"Chq./Ref.No.">>, <<"Value", " ", "Dt">>,
         <<"Withdrawal", " ", "Amt.">>, <<"Remarks">> >>,
      << <<"Date">>, <<"Narration">>, <<"Value", " ", "Dt">>,
         <<"Withdrawal", " ", "Amt.">>, <<"Closing", " ", "Balance">> >> }

ShiftRows ==
    { << <<"D">>, chq, dt, w, last >> :
        chq \in {<<>>, <<" ">>, <<"r">>},
        dt \in {<<>>, <<"E">>},
        w \in {<<"1", ",", "0">>, <<"x">>},
        last \in {<<>>, <<"2">>} }

InitShift ==
    /\ prog = "shift"
    /\ Fresh
    /\ \E names \in ShiftLayouts, table \in Tables(ShiftRows, MaxFixRows) :
          /\ df = table
          /\ columns = names

\* the positions of the table, in order, that are among rows
Detected(table, rows) ==
    SelectSeq([r \in DOMAIN table |-> r], LAMBDA r : r \in rows)

problematic_indices ==
    Detected(df, {r \in DOMAIN df : ShiftDetected(df[r], chq_ref_pos(columns))})

\* lines 16-35: without a Chq/Ref column the script exits
ShiftStart ==
    /\ prog = "shift" /\ pc = "start"
    /\ IF chq_ref_pos(columns) = 0
       THEN pc' = "done" /\ status' = "error" /\ df_corrected' = df_corrected
       ELSE pc' = "fix" /\ status' = status /\ df_corrected' = df
    /\ idx' = 1
    /\ UNCHANGED <<files, requests, prog, df, columns, header_found, cleaned_df, current_row,
                   consolidated_rows, output, orphans>>

\* a repair that takes the cells from the first row of the table
ShiftFixRowFromFirst ==
    /\ prog = "shift" /\ pc = "fix" /\ idx <= Len(problematic_indices)
    /\ LET r == problematic_indices[idx] IN
       df_corrected' =
           [df_corrected EXCEPT ![r] = ShiftRow(df[1], chq_ref_pos(columns))]
    /\ idx' = idx + 1
    /\ UNCHANGED <<files, requests, prog, df, columns, pc, header_found, cleaned_df, current_row,
                   consolidated_rows, output, status, orphans>>

\* lines 37-46: one row with an empty Chq/Ref cell is repaired
ShiftFixRow ==
    /\ prog = "shift" /\ pc = "fix" /\ idx <= Len(problematic_indices)
    /\ LET r == problematic_indices[idx] IN
       df_corrected' =
           [df_corrected EXCEPT ![r] = ShiftRow(df[r], chq_ref_pos(columns))]
    /\ idx' = idx + 1
    /\ UNCHANGED <<files, requests, prog, df, columns, pc, header_found, cleaned_df, current_row,
                   consolidated_rows, output, status, orphans>>

\* lines 48-60: the numeric columns are cleaned and the table is written
ShiftWrite ==
    /\ prog = "shift" /\ pc = "fix" /\ idx > Len(problematic_indices)
    /\ output' = ShiftCleanup(columns, df_corrected)
    /\ status' = "written"
    /\ pc' = "done"
    /\ UNCHANGED <<files, requests, prog, df, columns, idx, header_found, cleaned_df,
                   current_row, consolidated_rows, df_corrected, orphans>>

NextShift ==
    \/ ShiftStart
    \/ ShiftFixRow
    \/ ShiftWrite

SpecShift == InitShift /\ [][NextShift]_vars

(***************************************************************************)
(* fix_balance_column_shift, project hdfc/scripts/04_closingbal.py         *)
(***************************************************************************)
BalIsWithdrawal(col) ==
    Contains(Lower(col), "withdrawal") /\ Contains(Lower(col), "amt")

BalIsDeposit(col) ==
    /\ ~BalIsWithdrawal(col)
    /\ Contains(Lower(col), "deposit") /\ Contains(Lower(col), "amt")

BalIsBalance(col) ==
    /\ ~BalIsWithdrawal(col) /\ ~BalIsDeposit(col)
    /\ Contains(Lower(col), "closing") /\ Contains(Lower(col), "balance")

withdrawal_col(names) == LastWhere({i \in DOMAIN names : BalIsWithdrawal(names[i])})

deposit_col(names) == LastWhere({i \in DOMAIN names : BalIsDeposit(names[i])})

balance_col(names) == LastWhere({i \in DOMAIN names : BalIsBalance(names[i])})

BalColumnsFound(names) ==
    withdrawal_col(names) # 0 /\ deposit_col(names) # 0 /\ balance_col(names) # 0

is_empty_or_zero(val) ==
    \/ isna(val)
    \/ Lower(Strip(Str(val))) \in {<<>>, <<"nan">>}
    \/ IsZero(Remove(Str(val), ","))

\* lines 48-53: the deposit becomes the balance, the withdrawal the deposit
BalRotate(names, cells) ==
    [c \in DOMAIN cells |->
        IF c = balance_col(names) THEN cells[deposit_col(names)]
        ELSE IF c = deposit_col(names) THEN cells[withdrawal_col(names)]
        ELSE IF c = withdrawal_col(names) THEN <<>>
        ELSE cells[c]]

\* lines 56-62: commas removed, '' replaced by '0', to_numeric, fillna(0)
BalNumeric(v) ==
    LET s == Remove(v, ",")
        n == ToNumeric(IF s = <<>> THEN <<"0">> ELSE s)
    IN IF isna(n) THEN <<"0">> ELSE n

BalCleanRow(names, cells) ==
    [c \in DOMAIN cells |->
        IF c \in {withdrawal_col(names), deposit_col(names), balance_col(names)}
        THEN BalNumeric(cells[c])
        ELSE cells[c]]

BalCleanup(names, table) == [r \in DOMAIN table |-> BalCleanRow(names, table[r])]

\* what one call writes for a table: the cells of the output, or nothing
BalRun(names, table) ==
    IF ~BalColumnsFound(names) THEN <<"nothing">>
    ELSE <<"written",
           BalCleanup(names,
               [r \in DOMAIN table |->
                   IF is_empty_or_zero(table[r][balance_col(names)])
                   THEN BalRotate(names, table[r])
                   ELSE table[r]])>>

BalLayouts ==
    { << <<"Date">>, <<"Withdrawal", " ", "Amt.">>, <<"Deposit", " ", "Amt.">>,
         <<"Closing", " ", "Balance">> >>,
      << <<"Date">>, <<"Withdrawal", " ", "Amt.">>, <<"Deposit", " ", "Amt.">>,
         <<"Balance">> >> }

BalRows ==
    { << <<"D">>, w, d, b >> :
        w \in {<<>>, <<"1">>},
        d \in {<<>>, <<"3", ",", "0">>},
        b \in {<<>>, <<"0">>, <<"2">>, <<"x">>} }

InitBal ==
    /\ prog = "bal"
    /\ Fresh
    /\ \E names \in BalLayouts, table \in Tables(BalRows, MaxFixRows) :
          /\ df = table
          /\ columns = names

indices_to_fix ==
    Detected(df, {r \in DOMAIN df : is_empty_or_zero(df[r][balance_col(columns)])})

\* lines 12-46: without the three columns the script exits
BalStart ==
    /\ prog = "bal" /\ pc = "start"
    /\ IF ~BalColumnsFound(columns)
       THEN pc' = "done" /\ status' = "error" /\ df_corrected' = df_corrected
       ELSE pc' = "fix" /\ status' = status /\ df_corrected' = df
    /\ idx' = 1
    /\ UNCHANGED <<files, requests, prog, df, columns, header_found, cleaned_df, current_row,
                   consolidated_rows, output, orphans>>

\* lines 48-53: one row with an empty or zero balance is rotated
BalFixRow ==
    /\ prog = "bal" /\ pc = "fix" /\ idx <= Len(indices_to_fix)
    /\ LET r == indices_to_fix[idx] IN
       df_corrected' = [df_corrected EXCEPT ![r] = BalRotate(columns, df[r])]
    /\ idx' = idx + 1
    /\ UNCHANGED <<files, requests, prog, df, columns, pc, header_found, cleaned_df, current_row,
                   consolidated_rows, output, status, orphans>>

\* lines 55-65: the three columns are cleaned and the table is written
BalWrite ==
    /\ prog = "bal" /\ pc = "fix" /\ idx > Len(indices_to_fix)
    /\ output' = BalCleanup(columns, df_corrected)
    /\ status' = "written"
    /\ pc' = "done"
    /\ UNCHANGED <<files, requests, prog, df, columns, idx, header_found, cleaned_df,
                   current_row, consolidated_rows, df_corrected, orphans>>

NextBal ==
    \/ BalStart
    \/ BalFixRow
    \/ BalWrite

SpecBal == InitBal /\ [][NextBal]_vars

(***************************************************************************)
(* Properties.                                                             *)
(***************************************************************************)
Done == pc = "done"

Written == pc = "done" /\ status = "written"

\* texts joined by single blanks
RECURSIVE JoinBySpace(_)
JoinBySpace(texts) ==
    IF texts = <<>> THEN <<>>
    ELSE IF Len(texts) = 1 THEN texts[1]
    ELSE texts[1] \o <<" ">> \o JoinBySpace(Tail(texts))

\* a text with its blank runs collapsed and its ends trimmed
Normal(t) == Strip(Collapse(t))

\* the number of rows of the input table with a DateLike first cell
DateLikeRows(table) == Cardinality({i \in DOMAIN table : DateLike(table[i][1])})

\* the rows' positions in the file increase along the list
Increasing(rows) ==
    \A i, j \in DOMAIN rows : i < j => rows[i].src < rows[j].src

\* the amount columns of the consolidator that runs
AmountColumns == IF prog = "root" THEN 3..5 ELSE 6..8

\* C1: every record the root and the Canara consolidator write has a
\* DateLike Date field, whatever rows the input holds.
C1_OutputDateLike ==
    Written => \A r \in DOMAIN output : DateLike(output[r].cells[1])

\* C1 witness: an output is written from an input that holds a row whose
\* date cell is text but no date, and rows were passed over.
C1_Witness ==
    /\ Written
    /\ output # <<>>
    /\ orphans # {}
    /\ \E i \in DOMAIN df : ~isna(df[i][1]) /\ ~DateLike(df[i][1])
    /\ \E i \in DOMAIN df : isna(df[i][1])

\* C3: while a transaction is open, an amount field of the open record that
\* is not empty (seeded by the date row or filled by an earlier continuation
\* row) is left as it is by every later continuation row.
C3_AmountNotOverwritten ==
    [][ (/\ current_row # <<>>
         /\ current_row' # <<>>
         /\ current_row'[1].src = current_row[1].src)
        => \A i \in AmountColumns :
              ~EmptyField(current_row[1].cells[i])
                 => current_row'[1].cells[i] = current_row[1].cells[i] ]_vars

\* C3 witness: the open record has an amount that its date row did not
\* carry (an earlier continuation row filled it), and the continuation row
\* just taken carried another amount for that column.
C3_Witness ==
    /\ pc = "consolidate" /\ idx > 1 /\ current_row # <<>>
    /\ current_row[1].src < cleaned_df[idx - 1].src
    /\ \E i \in AmountColumns :
          /\ EmptyField(df[current_row[1].src][i])
          /\ ~EmptyField(current_row[1].cells[i])
          /\ RootIsAmountLike(cleaned_df[idx - 1].cells[i])
          /\ Strip(cleaned_df[idx - 1].cells[i]) # Strip(current_row[1].cells[i])

\* C10: the records are emitted in the order of the rows that opened them.
C10_OrderPreserved ==
    /\ Increasing(consolidated_rows)
    /\ current_row # <<>> =>
          \A i \in DOMAIN consolidated_rows :
              consolidated_rows[i].src < current_row[1].src
    /\ Written => Increasing(output)

\* C10 witness: two records or more are written, with rows merged or passed
\* over between them.
C10_Witness ==
    /\ Written
    /\ Len(output) >= 2
    /\ \E i \in DOMAIN df :
          /\ output[1].src < i /\ i < output[2].src
          /\ ~DateLike(df[i][1])

\* the date and the description column of the script that runs
DateCol == IF prog = "merge" THEN date_col(columns) ELSE 1

DescCol == IF prog = "merge" THEN narration_col(columns) ELSE 2

\* the end of the run of rows without a date that follows row p
RunEnd(rows, p) ==
    CHOOSE e \in p..Len(rows) :
        /\ \A j \in (p + 1)..e : ~DateLike(rows[j].cells[DateCol])
        /\ e < Len(rows) => DateLike(rows[e + 1].cells[DateCol])

\* the description the claim expects for the record opened by row p
ExpectedDescription(rows, p) ==
    JoinBySpace([j \in 1..(RunEnd(rows, p) - p + 1) |->
                    Text(rows[p + j - 1].cells[DescCol])])

\* C2: a DateLike row followed by k >= 0 rows without a date, each with a
\* description, yields a record whose description is the row's description
\* and the k descriptions in order, joined by single blanks (root
\* consolidator and HDFC narration merge; texts compared trimmed, blank
\* runs as one blank).
C2_DescriptionAccumulated ==
    Written =>
      \A p \in DOMAIN cleaned_df :
        (/\ DateLike(cleaned_df[p].cells[DateCol])
         /\ \A j \in (p + 1)..RunEnd(cleaned_df, p) :
               ~EmptyField(cleaned_df[j].cells[DescCol]))
        => \E r \in DOMAIN output :
              /\ output[r].src = cleaned_df[p].src
              /\ Normal(Text(output[r].cells[DescCol]))
                   = Normal(ExpectedDescription(cleaned_df, p))

\* C4: the root consolidator writes at most as many records as the input
\* has DateLike rows, and exactly as many when no row was passed over as
\* an orphan.
C4_RowCount ==
    (prog = "root" /\ Written) =>
      /\ Len(output) <= DateLikeRows(df)
      /\ orphans = {} => Len(output) = DateLikeRows(df)

HeaderWords == {"Date", "Particulars", "Withdrawals", "Deposits", "Balance"}

HasHeaderText(v) == \E i \in DOMAIN Text(v) : Text(v)[i] \in HeaderWords

\* C5: with the header row anywhere in the input, once or more, the labels
\* come from it and no record written by the root consolidator holds header
\* text in a field.
C5_NoHeaderTextInData ==
    (prog = "root" /\ Written /\ header_found) =>
      /\ columns = expected_columns
      /\ \A r \in DOMAIN output : \A i \in DOMAIN output[r].cells :
            ~HasHeaderText(output[r].cells[i])

\* the table without its row k
RemoveAt(table, k) ==
    SubSeq(table, 1, k - 1) \o SubSeq(table, k + 1, Len(table))

\* C6: a row without a date that the root consolidator meets with no open
\* record leaves the output as it is without that row in the input.
C6_OrphanLeavesOutput ==
    (prog = "root" /\ Done) =>
      \A k \in orphans : RootRun(RemoveAt(df, k)) = RootRun(df)

\* the run of the actions and the function of the whole table agree
RootRunAgrees ==
    (prog = "root" /\ Done) =>
      RootRun(df) = IF status = "written" THEN <<"written", Cells(output)>>
                    ELSE <<"nothing">>

\* the value the shift repair is to leave in cell c of a row
ShiftedValue(cells, pos, c) ==
    IF c = Len(cells) THEN <<>>
    ELSE IF c >= pos THEN cells[c + 1]
    ELSE cells[c]

\* row r of the table after is row r of df with its cells right of the
\* Chq/Ref column moved one to the left and the last cell cleared
ShiftedInPlace(after, r) ==
    LET pos == chq_ref_pos(columns) IN
    /\ Len(after[r]) = Len(df[r])
    /\ pos < Len(df[r]) => after[r][pos] = df[r][pos + 1]
    /\ \A c \in (pos + 1)..(Len(df[r]) - 1) : after[r][c] = df[r][c + 1]
    /\ after[r][Len(df[r])] = <<>>

\* C7 as stated: in the output of fix_csv_data_shift a row whose Chq/Ref
\* cell was blank holds the neighbour's value in Chq/Ref, every later
\* column but the last its right neighbour's value, a blank last column,
\* and as many cells as before.
C7_ShiftedInOutput ==
    (prog = "shift" /\ Written) =>
      \A r \in DOMAIN df :
          ShiftDetected(df[r], chq_ref_pos(columns)) => ShiftedInPlace(output, r)

\* C7 amended: that holds of the table when the repair loop has taken the
\* row, before the numeric cleanup; the output holds those values with the
\* cells of the columns Withdrawal Amt., Deposit Amt. and Closing Balance
\* cleaned to numbers, a cleared last column among them being 0.
C7_ShiftedBeforeCleanup ==
    /\ (prog = "shift" /\ pc = "fix") =>
          \A k \in 1..(idx - 1) : ShiftedInPlace(df_corrected, problematic_indices[k])
    /\ (prog = "shift" /\ Written) =>
          \A r \in DOMAIN df :
              ShiftDetected(df[r], chq_ref_pos(columns)) =>
                /\ Len(output[r]) = Len(df[r])
                /\ \A c \in DOMAIN df[r] :
                      output[r][c] =
                        IF columns[c] \in numeric_columns
                        THEN ShiftNumeric(ShiftedValue(df[r], chq_ref_pos(columns), c))
                        ELSE ShiftedValue(df[r], chq_ref_pos(columns), c)
                /\ output[r][Len(df[r])] =
                      IF columns[Len(df[r])] \in numeric_columns THEN <<"0">>
                      ELSE <<>>

\* C7 witness: a row with a blank Chq/Ref cell and values right of it is
\* written, its last column being Closing Balance.
C7_Witness ==
    /\ prog = "shift" /\ Written
    /\ \E r \in DOMAIN df :
          /\ ShiftDetected(df[r], chq_ref_pos(columns))
          /\ df[r][chq_ref_pos(columns) + 1] # <<>>
          /\ df[r][Len(df[r])] # <<>>
          /\ columns[Len(df[r])] \in numeric_columns
          /\ output[r][chq_ref_pos(columns)] = df[r][chq_ref_pos(columns) + 1]

\* C8: fix_csv_data_shift run on its own output changes nothing, and no row
\* of the output has a blank Chq/Ref cell, rows whose neighbour column was
\* blank included.
C8_ShiftIdempotent ==
    (prog = "shift" /\ Written) =>
      /\ ShiftRun(columns, ReRead(output)) = <<"written", output>>
      /\ \A r \in DOMAIN output :
            ~ShiftDetected(ReRead(output)[r], chq_ref_pos(columns))

\* C9: fix_balance_column_shift run on its own output changes nothing, and
\* no rotated row of the output has a blank or zero Closing Balance left
\* that a second run would rotate again.
C9_RotationIdempotent ==
    (prog = "bal" /\ Written) =>
      /\ BalRun(columns, ReRead(output)) = <<"written", output>>
      /\ \A k \in DOMAIN indices_to_fix :
            ~is_empty_or_zero(ReRead(output)[indices_to_fix[k]][balance_col(columns)])

\* the input positions of the rows of a list
Sources(rows) == {rows[i].src : i \in DOMAIN rows}

\* the records of the pass: the closed ones, then the open one
PassRecords == consolidated_rows \o current_row

\* C11: during the pass of the root and the Canara consolidator at most one
\* record is open; a DateLike data row opens one record; a record is
\* appended once, when the next DateLike row arrives or at the end of the
\* input, and is not changed afterwards; the end of the input with no open
\* record appends nothing.
C11_CursorLifecycle ==
    /\ [](/\ Len(current_row) <= 1
          /\ \A i, j \in DOMAIN PassRecords :
                i # j => PassRecords[i].src # PassRecords[j].src
          /\ pc = "consolidate" =>
                Sources(PassRecords) =
                   {cleaned_df[k].src : k \in {k \in 1..(idx - 1) :
                                                 DateLike(cleaned_df[k].cells[1])}}
          /\ Done =>
                Sources(consolidated_rows) =
                   {cleaned_df[k].src : k \in {k \in DOMAIN cleaned_df :
                                                 DateLike(cleaned_df[k].cells[1])}})
    /\ [][ /\ \/ consolidated_rows' = consolidated_rows
              \/ /\ current_row # <<>>
                 /\ consolidated_rows' = Append(consolidated_rows, current_row[1])
                 /\ \/ pc' = "done"
                    \/ DateLike(cleaned_df[idx].cells[1])
           /\ (pc = "consolidate" /\ idx <= Len(cleaned_df)
                 /\ DateLike(cleaned_df[idx].cells[1]))
                => current_row' = <<cleaned_df[idx]>>
           /\ (pc' = "done" /\ current_row = <<>>)
                => consolidated_rows' = consolidated_rows ]_vars

\* C11 witness: two records are closed, the first one after a continuation
\* row was merged into it, and the pass has ended.
C11_Witness ==
    /\ Done
    /\ Len(consolidated_rows) >= 2
    /\ \E k \in DOMAIN df :
          /\ consolidated_rows[1].src < k /\ k < consolidated_rows[2].src
    /\ consolidated_rows[1].cells # df[consolidated_rows[1].src]

\* the default column labels of the consolidator that runs
DefaultColumns ==
    IF prog = "root" THEN RootDefaultColumns(Width(df)) ELSE EXPECTED_COLUMNS

\* C12: with no header row in the input the root and the Canara
\* consolidator take the default column labels, every input row is a data
\* row of the pass (none is consumed as the header), and the run does not
\* end with an error.
C12_NoHeaderFallback ==
    (pc # "start" /\ ~header_found) =>
      /\ columns = DefaultColumns
      /\ cleaned_df = Indexed(df)
      /\ status # "error"

\* the position of the first header row of the input of the root script
FirstHeader ==
    CHOOSE h \in DOMAIN df :
        RootIsHeader(df[h]) /\ \A j \in 1..(h - 1) : ~RootIsHeader(df[j])

\* C13: the first header row of the input of the root consolidator gives
\* the column labels wherever it stands; it is removed from the data, and
\* every row before it stays a data row.
C13_FirstHeaderCanonical ==
    (prog = "root" /\ pc # "start" /\ header_found) =>
      /\ columns = [i \in DOMAIN df[FirstHeader] |->
                       RootCleanColumn(df[FirstHeader][i])]
      /\ Sources(cleaned_df) = {i \in DOMAIN df : ~RootIsHeader(df[i])}

(***************************************************************************)
(* The two HDFC scripts with a numeric cleanup, one run of one of them.    *)
(***************************************************************************)
InitNumeric == InitShift \/ InitBal

NextNumeric == NextShift \/ NextBal

SpecNumeric == InitNumeric /\ [][NextNumeric]_vars

\* the columns that the numeric cleanup of the script that runs cleans
CleanedColumns ==
    IF prog = "shift"
    THEN {c \in DOMAIN columns : columns[c] \in numeric_columns}
    ELSE {withdrawal_col(columns), deposit_col(columns), balance_col(columns)}

\* a text that is not blank and is no decimal once the separators are out
InvalidNumber(v) == Strip(Text(v)) # <<>> /\ ~IsFloat(Remove(Text(v), ","))

\* C14: the numeric cleanup of fix_csv_data_shift and of
\* fix_balance_column_shift keeps every row, and a cell of an amount column
\* that is not blank and does not parse as a decimal is not written as a
\* number.
C14_InvalidNotCoerced ==
    (prog \in {"shift", "bal"} /\ Written) =>
      /\ Len(output) = Len(df)
      /\ \A r \in DOMAIN df_corrected : \A c \in CleanedColumns :
            InvalidNumber(df_corrected[r][c]) => ~IsFloat(Text(output[r][c]))

(***************************************************************************)
(* The Canara consolidator on tables that are one column wider or one      *)
(* column narrower than the eight columns of its schema.                   *)
(***************************************************************************)
\* a row with its last cell cut off (by = -1) or one more cell (by = 1)
Resized(row, by) ==
    IF by < 0 THEN SubSeq(row, 1, Len(row) - 1) ELSE row \o <<<<"z">>>>

RaggedRows(by) ==
    {Resized(row, by) : row \in {CanaraHeaderRow} \cup CanaraDateRows \cup CanaraOtherRows}

InitRagged ==
    /\ prog = "canara"
    /\ \E by \in {-1, 1} : df \in Tables(RaggedRows(by), MaxRows - 1)
    /\ columns = <<>>
    /\ Fresh

SpecRagged == InitRagged /\ [][NextCanara]_vars

\* C15: a table with more or fewer columns than the eight of the schema
\* does not make the Canara consolidator end with an error: the records
\* it found are written.
C15_RaggedNotFatal ==
    (/\ prog = "canara" /\ Done
     /\ Width(df) # Len(EXPECTED_COLUMNS)
     /\ consolidated_rows # <<>>
     /\ ~HasDuplicates(columns))
    => status = "written"

(***************************************************************************)
(* merge_narration_and_remove_empty_rows, project kotak/scripts/           *)
(* mergenarr.py.  The table is read with dtype=str and                     *)
(* keep_default_na=False; cleaned_rows is held in consolidated_rows.       *)
(***************************************************************************)
KotakColumns == << <<"Date">>, <<"Narration">>, <<"Amount">> >>

\* row.get(name, ""): the cell under the label, '' without such a label
KotakGet(names, cells, name) ==
    IF \E c \in DOMAIN names : names[c] = name
    THEN cells[CHOOSE c \in DOMAIN names : names[c] = name]
    ELSE <<>>

\* line 17: every cell of the row is blank
KotakIsEmptyRow(cells) == \A c \in DOMAIN cells : Strip(cells[c]) = <<>>

\* line 21: the row is not the first of the table, has no date, and has
\* a narration
KotakIsContinuation(names, i, cells) ==
    /\ i > 1
    /\ Strip(KotakGet(names, cells, <<"Date">>)) = <<>>
    /\ Strip(KotakGet(names, cells, <<"Narration">>)) # <<>>

\* line 23: the narration is appended to the one of the last kept row
KotakMerge(names, prev, cells) ==
    LET n == CHOOSE c \in DOMAIN names : names[c] = <<"Narration">> IN
    [prev EXCEPT !.cells[n] = Strip(prev.cells[n] \o <<" ">> \o cells[n])]

KotakRows ==
    { << date, narr, amt >> :
        date \in {<<>>, <<"D">>},
        narr \in {<<>>, <<"a">>, <<" ", "b">>},
        amt \in {<<>>, <<"1">>} }

InitKotak ==
    /\ prog = "kotak"
    /\ df \in Tables(KotakRows, MaxRows - 1)
    /\ columns = KotakColumns
    /\ Fresh

\* line 10: the table is read
KotakStart ==
    /\ prog = "kotak" /\ pc = "start"
    /\ cleaned_df' = Indexed(df)
    /\ idx' = 1
    /\ pc' = "merge"
    /\ UNCHANGED <<files, requests, prog, df, columns, header_found, current_row,
                   consolidated_rows, df_corrected, output, status, orphans>>

\* lines 16-18: a row of blank cells is skipped
KotakSkipEmptyRow ==
    /\ prog = "kotak" /\ pc = "merge" /\ idx <= Len(cleaned_df)
    /\ KotakIsEmptyRow(cleaned_df[idx].cells)
    /\ idx' = idx + 1
    /\ UNCHANGED <<files, requests, prog, df, columns, pc, header_found, cleaned_df, current_row,
                   consolidated_rows, df_corrected, output, status, orphans>>

\* lines 21-23: a narration without a date goes to the last kept row
KotakMergeRow ==
    /\ prog = "kotak" /\ pc = "merge" /\ idx <= Len(cleaned_df)
    /\ ~KotakIsEmptyRow(cleaned_df[idx].cells)
    /\ KotakIsContinuation(columns, idx, cleaned_df[idx].cells)
    /\ consolidated_rows # <<>>
    /\ consolidated_rows' =
          [consolidated_rows EXCEPT ![Len(consolidated_rows)] =
              KotakMerge(columns, @, cleaned_df[idx].cells)]
    /\ idx' = idx + 1
    /\ UNCHANGED <<files, requests, prog, df, columns, pc, header_found, cleaned_df, current_row,
                   df_corrected, output, status, orphans>>

\* line 22 with no kept row: cleaned_rows[-1] raises IndexError, the except
\* branch of lines 34-37 prints it and nothing is written
KotakMergeFails ==
    /\ prog = "kotak" /\ pc = "merge" /\ idx <= Len(cleaned_df)
    /\ ~KotakIsEmptyRow(cleaned_df[idx].cells)
    /\ KotakIsContinuation(columns, idx, cleaned_df[idx].cells)
    /\ consolidated_rows = <<>>
    /\ status' = "error"
    /\ pc' = "done"
    /\ UNCHANGED <<files, requests, prog, df, columns, idx, header_found, cleaned_df,
                   current_row, consolidated_rows, df_corrected, output, orphans>>

\* lines 24-25: every other row is kept
KotakKeepRow ==
    /\ prog = "kotak" /\ pc = "merge" /\ idx <= Len(cleaned_df)
    /\ ~KotakIsEmptyRow(cleaned_df[idx].cells)
    /\ ~KotakIsContinuation(columns, idx, cleaned_df[idx].cells)
    /\ consolidated_rows' = Emit(consolidated_rows, cleaned_df[idx])
    /\ idx' = idx + 1
    /\ UNCHANGED <<files, requests, prog, df, columns, pc, header_found, cleaned_df, current_row,
                   df_corrected, output, status, orphans>>

\* lines 27-31: the kept rows are written
KotakWrite ==
    /\ prog = "kotak" /\ pc = "merge" /\ idx > Len(cleaned_df)
    /\ output' = consolidated_rows
    /\ status' = "written"
    /\ pc' = "done"
    /\ UNCHANGED <<files, requests, prog, df, columns, idx, header_found, cleaned_df,
                   current_row, consolidated_rows, df_corrected, orphans>>

NextKotak ==
    \/ KotakStart
    \/ KotakSkipEmptyRow
    \/ KotakMergeRow
    \/ KotakMergeFails
    \/ KotakKeepRow
    \/ KotakWrite

SpecKotak == InitKotak /\ [][NextKotak]_vars

\* row k of the Kotak table has a narration and no date, and no row before
\* it can have been kept: it is the first row or follows blank rows only
KotakOrphan(k) ==
    /\ Strip(df[k][1]) = <<>>
    /\ Strip(df[k][2]) # <<>>
    /\ \A j \in 1..(k - 1) : KotakIsEmptyRow(df[j])

\* C16: a row of the Kotak table with a narration, no date and no kept row
\* before it is discarded: the run writes its output without an error, the
\* row is no record of it, and the rows after it that carry a date are.
C16_KotakOrphanDiscarded ==
    (prog = "kotak" /\ Done) =>
      \A k \in DOMAIN df :
        KotakOrphan(k) =>
          /\ status = "written"
          /\ k \notin Sources(output)
          /\ \A j \in (k + 1)..Len(df) :
                Strip(df[j][1]) # <<>> => j \in Sources(output)

\* C17: every row that merge_narration_rows writes has a DateLike date; a
\* row with text that is no date in its date cell opens no record.
C17_MergeOutputDateLike ==
    (prog = "merge" /\ Written) =>
      \A r \in DOMAIN output : DateLike(output[r].cells[date_col(columns)])

(***************************************************************************)
(* extract_and_process, the /extract handler of project hdfc/app.py,       *)
(* project kotak/app.py and project canara/app.py.  The upload is saved    *)
(* under a fresh uuid name; the extracted table and the table every        *)
(* pipeline script writes go to the paths of CONFIG['paths'], the same for *)
(* every request.  A table is held as the request whose upload it derives  *)
(* from, 0 for what an earlier run left.  requests[r] is the position of   *)
(* request r (at), the pipeline script it is at (step) and the table it    *)
(* holds (data); files[k] is the file that script k writes, files[0] the   *)
(* extracted table.                                                        *)
(***************************************************************************)
Apps == {"hdfc", "kotak", "canara"}

\* the pipeline scripts that the handler runs after the extraction
PipelineSteps(app) == IF app = "canara" THEN 1..3 ELSE 1..4

\* two requests are in flight
Requests == {1, 2}

InitApp ==
    /\ prog \in Apps
    /\ files = [k \in {0} \cup PipelineSteps(prog) |-> 0]
    /\ requests = [r \in Requests |-> [at |-> "start", step |-> 0, data |-> 0]]
    /\ df = <<>>
    /\ columns = <<>>
    /\ pc = "serve"
    /\ idx = 0
    /\ header_found = FALSE
    /\ cleaned_df = <<>>
    /\ current_row = <<>>
    /\ consolidated_rows = <<>>
    /\ df_corrected = <<>>
    /\ output = <<>>
    /\ status = "running"
    /\ orphans = {}

AppUnchanged ==
    UNCHANGED <<prog, df, columns, pc, idx, header_found, cleaned_df,
                current_row, consolidated_rows, df_corrected, output, status,
                orphans>>

\* pdf_file.save(temp_pdf_path) and the run of tabula on that file: the
\* extracted text is the request's own
AppExtract(r) ==
    /\ prog \in Apps /\ requests[r].at = "start"
    /\ requests' = [requests EXCEPT ![r] = [at |-> "extracted", step |-> 0, data |-> r]]
    /\ files' = files
    /\ AppUnchanged

\* open(extracted_csv, "w").write(combined_data)
AppWriteExtracted(r) ==
    /\ prog \in Apps /\ requests[r].at = "extracted"
    /\ files' = [files EXCEPT ![0] = requests[r].data]
    /\ requests' = [requests EXCEPT ![r] = [at |-> "read", step |-> 1, data |-> 0]]
    /\ AppUnchanged

\* a pipeline script reads its input file
AppScriptRead(r) ==
    /\ prog \in Apps /\ requests[r].at = "read"
    /\ requests' = [requests EXCEPT ![r].at = "write",
                                    ![r].data = files[requests[r].step - 1]]
    /\ files' = files
    /\ AppUnchanged

\* the script writes its output file; the next script, or the response
AppScriptWrite(r) ==
    /\ prog \in Apps /\ requests[r].at = "write"
    /\ files' = [files EXCEPT ![requests[r].step] = requests[r].data]
    /\ requests' =
          [requests EXCEPT ![r] =
              IF requests[r].step + 1 \in PipelineSteps(prog)
              THEN [at |-> "read", step |-> requests[r].step + 1, data |-> 0]
              ELSE [at |-> "send", step |-> requests[r].step, data |-> 0]]
    /\ AppUnchanged

\* send_file of the last file of the pipeline
AppSend(r) ==
    /\ prog \in Apps /\ requests[r].at = "send"
    /\ requests' = [requests EXCEPT ![r].at = "done",
                                    ![r].data = files[requests[r].step]]
    /\ files' = files
    /\ AppUnchanged

NextApp ==
    \E r \in Requests :
        \/ AppExtract(r)
        \/ AppWriteExtracted(r)
        \/ AppScriptRead(r)
        \/ AppScriptWrite(r)
        \/ AppSend(r)

SpecApp == InitApp /\ [][NextApp]_vars

\* C18: with two /extract requests in flight, whatever the interleaving, a
\* pipeline script of a request reads a table that derives from its own
\* upload, and the response holds data of its own upload only.
C18_RequestIsolation ==
    prog \in Apps =>
      \A r \in Requests :
          requests[r].at \in {"write", "done"} => requests[r].data = r

(***************************************************************************)
(* process_bank_statement, src/empty_column_ident.py (prog "ident") and    *)
(* project canara2/scripts/01_empty_column_ident.py (prog "ident2").  The  *)
(* table is read with dtype=str and keep_default_na=False; pandas labels a *)
(* column without a name "Unnamed: k".  df_corrected is the data frame the *)
(* blocks are shifted in; output holds the labels and the rows written.    *)
(***************************************************************************)
IdentProgs == {"ident", "ident2"}

\* line 10 (80): the label marks a column without a name
IdentIsUnnamed(variant, col_name) ==
    \/ col_name = <<>>
    \/ Head(col_name) = "Unnamed"
    \/ variant = "ident2" /\ Lower(col_name) \in {<<"nan">>, <<"none">>}

\* line 16 (86): the cell counts as empty
IdentIsEmpty(variant, val) ==
    \/ Strip(Str(val)) = <<>>
    \/ variant = "ident2" /\ Lower(Strip(Str(val))) \in {<<"nan">>, <<"none">>}

\* lines 14-19 (84-89): the empty cells of column c from row 0 downwards
empty_count(variant, table, c) ==
    CHOOSE n \in 0..Len(table) :
        /\ \A i \in 1..n : IdentIsEmpty(variant, table[i][c])
        /\ n < Len(table) => ~IdentIsEmpty(variant, table[n + 1][c])

\* lines 9-26 (78-98): the detected columns, from left to right
IdentResults(variant, names, table) ==
    LET found == {c \in DOMAIN names :
                     /\ IdentIsUnnamed(variant, Strip(names[c]))
                     /\ empty_count(variant, table, c) > 0}
    IN [k \in DOMAIN Detected(names, found) |->
           [col_idx |-> Detected(names, found)[k],
            end_row |-> empty_count(variant, table, Detected(names, found)[k])]]

\* row[:col_idx] + row[col_idx+1:] + [""]
IdentShiftCells(cells, col_idx) ==
    SubSeq(cells, 1, col_idx - 1) \o SubSeq(cells, col_idx + 1, Len(cells))
       \o << <<>> >>

\* lines 30-37 (110-131): the rows of the span lose the cell of the column
shift_left_selected_block(table, col_idx, end_row) ==
    [i \in DOMAIN table |->
        IF i <= end_row THEN IdentShiftCells(table[i], col_idx) ELSE table[i]]

\* lines 65-76: the labels of the detected columns are popped from left to
\* right (lines 211-220: from right to left)
RECURSIVE IdentPopAll(_, _)
IdentPopAll(headers, cols) ==
    IF cols = <<>> THEN headers
    ELSE IdentPopAll(IdentShiftCells(headers, Head(cols)), Tail(cols))

Reversed(s) == [i \in DOMAIN s |-> s[Len(s) + 1 - i]]

IdentNewHeaders(variant, names, results) ==
    LET cols == [k \in DOMAIN results |-> results[k].col_idx] IN
    IdentPopAll(names, IF variant = "ident2" THEN Reversed(cols) ELSE cols)

IdentLayouts ==
    { << <<"Date">>, <<"Unnamed", ":", "1">>, <<"Debit">>, <<"Balance">> >>,
      << <<"Date">>, <<"Unnamed", ":", "1">>, <<"Unnamed", ":", "2">>, <<"Balance">> >>,
      << <<"Date">>, <<"Narration">>, <<"Debit">>, <<"Balance">> >> }

IdentRows ==
    { << date, a, b, bal >> :
        date \in {<<"D">>},
        a \in {<<>>, <<"a">>},
        b \in {<<>>, <<" ">>, <<"1">>},
        bal \in {<<>>, <<"2">>} }

InitIdent ==
    /\ prog \in IdentProgs
    /\ Fresh
    /\ \E names \in IdentLayouts, table \in Tables(IdentRows, MaxFixRows) :
          /\ df = table
          /\ columns = names

results == IdentResults(prog, columns, df)

\* lines 41-46 (171-184): with nothing detected the table is written as read
IdentStart ==
    /\ prog \in IdentProgs /\ pc = "start"
    /\ df_corrected' = df
    /\ idx' = 1
    /\ IF results = <<>>
       THEN /\ output' = [headers |-> [c \in DOMAIN columns |-> Strip(columns[c])],
                          rows |-> df]
            /\ status' = "written"
            /\ pc' = "done"
       ELSE /\ output' = output
            /\ status' = status
            /\ pc' = "shift"
    /\ UNCHANGED <<files, requests, prog, df, columns, header_found, cleaned_df,
                   current_row, consolidated_rows, orphans>>

\* lines 54-60 (193-200): the block of one detected column is shifted
IdentShiftBlock ==
    /\ prog \in IdentProgs /\ pc = "shift" /\ idx <= Len(results)
    /\ df_corrected' =
          shift_left_selected_block(df_corrected, results[idx].col_idx,
                                    results[idx].end_row)
    /\ idx' = idx + 1
    /\ UNCHANGED <<files, requests, prog, df, columns, pc, header_found,
                   cleaned_df, current_row, consolidated_rows, output, status,
                   orphans>>

\* lines 62-80 (208-228): the labels are fixed and the table is written
IdentWrite ==
    /\ prog \in IdentProgs /\ pc = "shift" /\ idx > Len(results)
    /\ output' =
          [headers |-> IdentNewHeaders(prog,
                          [c \in DOMAIN columns |-> Strip(columns[c])], results),
           rows |-> df_corrected]
    /\ status' = "written"
    /\ pc' = "done"
    /\ UNCHANGED <<files, requests, prog, df, columns, idx, header_found,
                   cleaned_df, current_row, consolidated_rows, df_corrected,
                   orphans>>

NextIdent ==
    \/ IdentStart
    \/ IdentShiftBlock
    \/ IdentWrite

SpecIdent == InitIdent /\ [][NextIdent]_vars

\* the cells of a list at other positions than dropped, in order, with as
\* many blanks behind them as cells were dropped
WithoutCells(cells, dropped) ==
    LET kept == Detected(cells, DOMAIN cells \ dropped) IN
    [c \in DOMAIN cells |-> IF c <= Len(kept) THEN cells[kept[c]] ELSE <<>>]

\* the detected columns whose span of leading blanks holds row i
SpansOver(i) ==
    {results[k].col_idx : k \in {k \in DOMAIN results : i <= results[k].end_row}}

\* C19: for a column without a name and with N leading blank cells the rows
\* 0..N-1 lose the cell of that column, their later cells move one place to
\* the left and a blank is appended; the labels lose that position; the rows
\* from N on stay as they were.
C19_DeletionInsideSpan ==
    (prog \in IdentProgs /\ Written) =>
      /\ Len(output.rows) = Len(df)
      /\ \A i \in DOMAIN df : output.rows[i] = WithoutCells(df[i], SpansOver(i))
      /\ output.headers =
            WithoutCells([c \in DOMAIN columns |-> Strip(columns[c])],
                         {results[k].col_idx : k \in DOMAIN results})

(***************************************************************************)
(* The classifiers that select transaction rows, applied to one row:       *)
(* is_date_like of src/01_consolidate.py and of project canara/scripts/    *)
(* 02_consolidate.py, is_valid_txn_row of project canara/scripts/          *)
(* 01_clean.py.  The date literal "D" stands for a date written as         *)
(* 01-04-2024, "E" for one written as 1/4/24.  df holds the row as         *)
(* csv.reader gives it; pd.read_csv gives NaN for an empty cell.           *)
(***************************************************************************)
\* the dates that match ^\d{2}-\d{2}-\d{4}
TxnDateLiterals == {"D"}

\* lines 11-16 of 01_clean.py: the text of the first cell is matched as it
\* is, in a row of seven cells or more
is_valid_txn_row(row) ==
    /\ Len(row) >= 7
    /\ row[1] # <<>> /\ Head(row[1]) \in TxnDateLiterals

\* the value pd.read_csv(header=None) gives for a cell text
ReadCell(t) == IF t = <<>> THEN NaN ELSE t

CellTokens == {" ", "D", "E", "x"}

MaxCellLen == 3

CellTexts == UNION {[1..n -> CellTokens] : n \in 0..MaxCellLen}

InitClassify ==
    /\ prog = "classify"
    /\ Fresh
    /\ columns = <<>>
    /\ \E t \in CellTexts, n \in 6..8 :
          df = << [c \in 1..n |-> IF c = 1 THEN t ELSE <<"x">>] >>

\* the three classifiers take the first cell of the row
Classify ==
    /\ prog = "classify" /\ pc = "start"
    /\ output' = [root |-> RootIsDateLike(ReadCell(df[1][1])),
                  canara |-> CanaraIsDateLike(ReadCell(df[1][1])),
                  txn |-> is_valid_txn_row(df[1])]
    /\ pc' = "done"
    /\ UNCHANGED <<files, requests, prog, df, columns, idx, header_found,
                   cleaned_df, current_row, consolidated_rows, df_corrected,
                   status, orphans>>

NextClassify == Classify

SpecClassify == InitClassify /\ [][NextClassify]_vars

\* the text, with the blanks around it removed, begins with one of the dates
BeginsWithDate(t, dates) == Strip(t) # <<>> /\ Head(Strip(t)) \in dates

\* C20: each classifier takes a cell for a date exactly when its text, with
\* the blanks around it removed, begins with a date of the classifier's
\* patterns; a date after other text does not count.
C20_AnchoredAtTrimmedStart ==
    (prog = "classify" /\ Done) =>
      /\ output.root = BeginsWithDate(df[1][1], DateLiterals)
      /\ output.canara = BeginsWithDate(df[1][1], DateLiterals)
      /\ Len(df[1]) >= 7 =>
            output.txn = BeginsWithDate(df[1][1], TxnDateLiterals)

(***************************************************************************)
(* is_amount_like of src/01_consolidate.py applied to one cell value: the  *)
(* float NaN of an empty cell, or a text.                                  *)
(***************************************************************************)
AmountTokens == {" ", ",", "1", "nan", "NAN", "None", "x"}

AmountValues == {NaN} \cup UNION {[1..n -> AmountTokens] : n \in 0..MaxCellLen}

InitAmount ==
    /\ prog = "amount"
    /\ Fresh
    /\ columns = <<>>
    /\ \E v \in AmountValues : df = << <<v>> >>

\* lines 112-125: the call returns True or False; the ValueError of float
\* is caught inside
AmountCheck ==
    /\ prog = "amount" /\ pc = "start"
    /\ output' = [amount |-> RootIsAmountLike(df[1][1])]
    /\ pc' = "done"
    /\ UNCHANGED <<files, requests, prog, df, columns, idx, header_found,
                   cleaned_df, current_row, consolidated_rows, df_corrected,
                   status, orphans>>

NextAmount == AmountCheck

SpecAmount == InitAmount /\ [][NextAmount]_vars

\* the values the claim lists: the empty text, blanks only, the words nan
\* and none in any letter case
BlankAmount(v) ==
    \/ Strip(Text(v)) = <<>>
    \/ Lower(Strip(Text(v))) \in {<<"nan">>, <<"none">>}

\* C21: is_amount_like returns a boolean for every cell value, and False
\* for the empty text, for blanks only, and for the words nan and none in
\* any letter case.
C21_AmountLikeTotal ==
    (prog = "amount" /\ Done) =>
      /\ output.amount \in BOOLEAN
      /\ BlankAmount(df[1][1]) => output.amount = FALSE

\* C21 witness: the word nan in capitals, which float would take for a
\* number, is refused, and a numeral with a separator is accepted.
C21_Witness ==
    /\ prog = "amount" /\ Done
    /\ df[1][1] = <<" ", "NAN">>
    /\ output.amount = FALSE
    /\ RootIsAmountLike(<<"1", ",", "1">>)

\* the glossary's Amount-like: without separators and blanks the text is a
\* decimal numeral
AmountLike(v) == ~isna(v) /\ IsFloat(Remove(Remove(Text(v), ","), " "))

\* C22: an amount field of the open record of the root and of the Canara
\* consolidator holds what its date row carried or an Amount-like text: a
\* continuation row's text that is no amount never gets into it.
C22_AmountGating ==
    (prog \in {"root", "canara"} /\ current_row # <<>>) =>
      \A i \in AmountColumns \cap DOMAIN current_row[1].cells :
          \/ current_row[1].cells[i] = df[current_row[1].src][i]
          \/ AmountLike(current_row[1].cells[i])

(***************************************************************************)
(* The root consolidator on tables with rows that hold header keywords in  *)
(* one, two or three of their cells, or two keywords in one header cell.   *)
(***************************************************************************)
KeywordRows ==
    { RootHeaderRow,
      << <<"Date">>, <<"Details">>, <<"Withdrawals", " ", "Particulars">>,
         <<"Deposits">>, <<"Balance">> >>,
      << <<"Date">>, <<"Particulars">>, <<"Balance">>, NaN, NaN >>,
      << <<"Date", " ", "Particulars", " ", "Withdrawals">>, NaN, NaN, NaN, NaN >>,
      << <<"D">>, <<"Deposits", " ", "Balance">>, <<"1">>, NaN, NaN >>,
      << <<"D">>, <<"a">>, <<"1">>, NaN, <<"2">> >>,
      << NaN, <<"Particulars">>, NaN, <<"Date">>, NaN >> }

InitKeyword ==
    /\ prog = "root"
    /\ df \in Tables(KeywordRows, MaxRows - 1)
    /\ columns = <<>>
    /\ Fresh

SpecKeyword == InitKeyword /\ [][NextRoot]_vars

\* at least three cells of the row hold, each, a keyword of its own
HeaderByCells(row) ==
    \E c1, c2, c3 \in DOMAIN row : \E k1, k2, k3 \in header_keywords :
        /\ c1 < c2 /\ c2 < c3
        /\ k1 # k2 /\ k1 # k3 /\ k2 # k3
        /\ Contains(Lower(Text(row[c1])), k1)
        /\ Contains(Lower(Text(row[c2])), k2)
        /\ Contains(Lower(Text(row[c3])), k3)

\* C23: the root consolidator takes a row for a header exactly when three
\* of its cells or more hold a header keyword each, the keywords distinct;
\* a row with a keyword in fewer than three cells stays a data row (stated
\* for tables whose first header row, if any, is the first row).
C23_HeaderByThreeCells ==
    (prog = "root" /\ pc # "start") =>
      /\ header_found = \E i \in DOMAIN df : HeaderByCells(df[i])
      /\ (HeaderByCells(df[1]) \/ \A i \in DOMAIN df : ~HeaderByCells(df[i]))
            => Sources(cleaned_df) = {i \in DOMAIN df : ~HeaderByCells(df[i])}

\* the label of a header cell by the priority Date, Debit, Credit, Balance,
\* Description of the roles (the root schema has no Reference column)
PriorityLabel(col) ==
    LET col_str == Strip(Str(col)) IN
    IF Contains(Lower(col_str), "date") THEN <<"Date">>
    ELSE IF Contains(Lower(col_str), "withdrawal") THEN <<"Withdrawals">>
    ELSE IF Contains(Lower(col_str), "deposit") THEN <<"Deposits">>
    ELSE IF Contains(Lower(col_str), "balance") THEN <<"Balance">>
    ELSE IF Contains(Lower(col_str), "particular") THEN <<"Particulars">>
    ELSE col_str

\* C24: a header cell of the root consolidator that holds keywords of two
\* roles gets the label of the role that comes first in Date, Debit,
\* Credit, Balance, Description: a cell with withdrawal and particular is
\* the Withdrawals column (stated for tables whose first row is the header).
C24_TieBreakPriority ==
    (prog = "root" /\ pc # "start" /\ RootIsHeader(df[1])) =>
      columns = [i \in DOMAIN df[1] |-> PriorityLabel(df[1][i])]

(***************************************************************************)
(* The two consolidators on tables that lack the last column of the        *)
(* schema.                                                                 *)
(***************************************************************************)
InitNarrow ==
    /\ \/ prog = "root" /\ df \in Tables({Resized(row, -1) : row \in RootRows}, MaxRows - 1)
       \/ prog = "canara" /\ df \in Tables(RaggedRows(-1), MaxRows - 1)
    /\ columns = <<>>
    /\ Fresh

SpecNarrow == InitNarrow /\ [][Next]_vars

\* the schema of the consolidator that runs
Schema == IF prog = "root" THEN expected_columns ELSE EXPECTED_COLUMNS

\* C25: from a table with fewer columns than the schema the root and the
\* Canara consolidator write records with every column of the schema, the
\* missing trailing ones empty.
C25_MissingColumnsSynthesized ==
    (Written /\ Width(df) < Len(Schema)) =>
      \A r \in DOMAIN output :
          /\ Len(output[r].cells) = Len(Schema)
          /\ \A i \in (Width(df) + 1)..Len(Schema) : EmptyField(output[r].cells[i])

(***************************************************************************)
(* The root consolidator on tables with two columns more than the schema.  *)
(***************************************************************************)
WideRows ==
    { << <<"D">>, <<"a">>, <<"1">>, NaN, <<"2">>, NaN, NaN >>,
      << <<"D">>, <<"a">>, <<"1">>, NaN, <<"2">>, <<"z">>, NaN >>,
      << <<"D">>, <<"a">>, <<"1">>, NaN, <<"2">>, <<" ">>, <<"z">> >>,
      << NaN, <<"b">>, NaN, NaN, NaN, <<"3">>, NaN >> }

InitWide ==
    /\ prog = "root"
    /\ df \in Tables(WideRows, MaxRows + 1)
    /\ columns = <<>>
    /\ Fresh

SpecWide == InitWide /\ [][NextRoot]_vars

\* the number of records in which cell i is missing
MissingIn(recs, i) == Cardinality({r \in DOMAIN recs : isna(recs[r].cells[i])})

\* the columns that the rule keeps: the five of the schema, and an extra one
\* unless it is missing in more than four fifths of the records
KeptColumns(recs) ==
    {i \in DOMAIN recs[1].cells :
        \/ i <= Len(expected_columns)
        \/ 5 * MissingIn(recs, i) <= 4 * Len(recs)}

\* C26: from records with more than five columns the root consolidator
\* removes an extra column exactly when its cell is missing in strictly
\* more than 80% of the records; the five schema columns stay, in their
\* order, before the extra columns that are kept.
C26_ExtraColumnRule ==
    (prog = "root" /\ Written /\ Width(df) > Len(expected_columns)) =>
      /\ Len(output) = Len(consolidated_rows)
      /\ \A r \in DOMAIN output :
            LET rec == consolidated_rows[r]
                pos == Detected(rec.cells, KeptColumns(consolidated_rows))
            IN /\ Len(output[r].cells) = Len(pos)
               /\ \A k \in DOMAIN pos :
                     /\ k <= Len(expected_columns) => pos[k] = k
                     /\ output[r].cells[k] =
                          IF k = 2 THEN RootFinalParticulars(rec.cells[k])
                          ELSE IF k \in 3..5 THEN RootFinalAmount(rec.cells[k])
                          ELSE rec.cells[pos[k]]

\* C26 witness: of five records written, one extra column is missing in
\* four (80%: kept), the other in all five (removed).
C26_Witness ==
    /\ prog = "root" /\ Written
    /\ Len(consolidated_rows) = 5
    /\ MissingIn(consolidated_rows, 6) = 4
    /\ MissingIn(consolidated_rows, 7) = 5
    /\ \A r \in DOMAIN output : Len(output[r].cells) = 6

\* the Closing Balance of the row is blank or zero while its withdrawal and
\* its deposit cell hold a value
RotationDue(names, cells) ==
    /\ \/ EmptyField(cells[balance_col(names)])
       \/ IsZero(Remove(cells[balance_col(names)], ","))
    /\ ~EmptyField(cells[withdrawal_col(names)])
    /\ ~EmptyField(cells[deposit_col(names)])

\* C27: fix_balance_column_shift rotates a row (balance := old deposit,
\* deposit := old withdrawal, withdrawal cleared) exactly when its Closing
\* Balance is blank or zero while its withdrawal and deposit columns are
\* populated; every other row keeps its three amounts in their columns
\* (the written values being those after the numeric cleanup).
C27_RotationGuard ==
    (prog = "bal" /\ Written) =>
      \A r \in DOMAIN df :
          output[r] =
            IF RotationDue(columns, df[r])
            THEN BalCleanRow(columns, BalRotate(columns, df[r]))
            ELSE BalCleanRow(columns, df[r])

\* C28: when a continuation row of merge_narration_rows carries a value in
\* a column other than the date and the narration, and the row that opened
\* the record had that column empty, the open record holds a value in that
\* column afterwards: the cell is not discarded.
C28_FillIfEmpty ==
    (prog = "merge" /\ pc = "merge" /\ current_row # <<>>) =>
      \A k \in (current_row[1].src + 1)..(idx - 1) :
        \A c \in DOMAIN columns \ {date_col(columns), narration_col(columns)} :
          (/\ ~EmptyField(cleaned_df[k].cells[c])
           /\ EmptyField(df[current_row[1].src][c]))
          => ~EmptyField(current_row[1].cells[c])

(***************************************************************************)
(* remove_split_repeating_headers, project kotak/scripts/01_cleancsv.py.   *)
(* The table is read with header=None, dtype=str and keep_default_na=False *)
(* (an empty cell is the empty text); rows_to_remove is held in orphans,   *)
(* merged_header in columns.                                               *)
(***************************************************************************)
\* "word" in row: a cell of the row is that word and nothing else
HasCell(row, word) == \E c \in DOMAIN row : row[c] = <<word>>

\* lines 13-26: rows i, i+1, i+2 are the three rows of a split header
is_split_header_block(table, i) ==
    /\ i + 2 <= Len(table)
    /\ HasCell(table[i], "Withdrawal(Dr)/") \/ HasCell(table[i], "Withdrawal")
    /\ HasCell(table[i + 1], "Date") /\ HasCell(table[i + 1], "Narration")
    /\ HasCell(table[i + 2], "Deposit(Cr)") \/ HasCell(table[i + 2], "Deposit")

\* lines 29-30: the start of the first header block, 0 when there is none
header_start_idx(table) ==
    FirstWhere({i \in DOMAIN table : is_split_header_block(table, i)})

\* lines 34-42: the non-blank parts of a column, stripped, joined by blanks
merged_header(table, i) ==
    [j \in 1..Width(table) |->
        JoinBySpace(SelectSeq(<<Strip(table[i][j]), Strip(table[i + 1][j]),
                                Strip(table[i + 2][j])>>,
                              LAMBDA p : p # <<>>))]

\* a block marked without its last row
BlockRowsShort(i) == {i, i + 1}

\* line 53: the rows of the block that starts at row i
BlockRows(i) == {i, i + 1, i + 2}

SplitHeader ==
    << << <<>>, <<>>, <<"Withdrawal(Dr)/">> >>,
       << <<"Date">>, <<"Narration">>, <<>> >>,
       << <<>>, <<" ">>, <<"Deposit(Cr)">> >> >>

\* the pieces the tables are made of: a header block, single rows of it, a
\* transaction row
CleanPieces ==
    {SplitHeader} \cup {<<SplitHeader[k]>> : k \in 1..3}
       \cup { << << <<"D">>, <<"a">>, <<"1">> >> >> }

RECURSIVE Flatten(_)
Flatten(pieces) ==
    IF pieces = <<>> THEN <<>> ELSE Head(pieces) \o Flatten(Tail(pieces))

InitClean ==
    /\ prog = "cleancsv"
    /\ \E pieces \in Tables(CleanPieces, MaxRows) : df = Flatten(pieces)
    /\ columns = <<>>
    /\ Fresh

\* lines 28-47: the header is built from the first block; without a block
\* the function returns and writes nothing
CleanFindHeader ==
    /\ prog = "cleancsv" /\ pc = "start"
    /\ IF header_start_idx(df) = 0
       THEN /\ columns' = columns
            /\ status' = "none"
            /\ pc' = "done"
       ELSE /\ columns' = merged_header(df, header_start_idx(df))
            /\ status' = status
            /\ pc' = "scan"
    /\ idx' = 1
    /\ UNCHANGED <<files, requests, prog, df, header_found, cleaned_df,
                   current_row, consolidated_rows, df_corrected, output,
                   orphans>>

\* lines 51-53: a header block starts at row idx
CleanMarkBlock ==
    /\ prog = "cleancsv" /\ pc = "scan" /\ idx <= Len(df) - 2
    /\ is_split_header_block(df, idx)
    /\ orphans' = orphans \cup BlockRows(idx)
    /\ idx' = idx + 1
    /\ UNCHANGED <<files, requests, prog, df, columns, pc, header_found,
                   cleaned_df, current_row, consolidated_rows, df_corrected,
                   output, status>>

\* lines 51-52: no header block starts at row idx
CleanPassRow ==
    /\ prog = "cleancsv" /\ pc = "scan" /\ idx <= Len(df) - 2
    /\ ~is_split_header_block(df, idx)
    /\ idx' = idx + 1
    /\ UNCHANGED <<files, requests, prog, df, columns, pc, header_found,
                   cleaned_df, current_row, consolidated_rows, df_corrected,
                   output, status, orphans>>

\* lines 55-61: the marked rows are dropped and the table is written
CleanWrite ==
    /\ prog = "cleancsv" /\ pc = "scan" /\ idx > Len(df) - 2
    /\ output' = SelectSeq(Indexed(df), LAMBDA r : r.src \notin orphans)
    /\ status' = "written"
    /\ pc' = "done"
    /\ UNCHANGED <<files, requests, prog, df, columns, idx, header_found,
                   cleaned_df, current_row, consolidated_rows, df_corrected,
                   orphans>>

NextClean ==
    \/ CleanFindHeader
    \/ CleanMarkBlock
    \/ CleanPassRow
    \/ CleanWrite

SpecClean == InitClean /\ [][NextClean]_vars

\* the rows of the table that lie in a header block
InHeaderBlock(table) ==
    {r \in DOMAIN table :
        \E i \in DOMAIN table : is_split_header_block(table, i) /\ r \in i..(i + 2)}

\* C29: with a 3-row header block in the table, the column names that
\* remove_split_repeating_headers writes are, column by column, the texts
\* of the three rows of the first block put together (blanks apart); every
\* row of a header block, first or repeated, is removed; every other row is
\* written as it was, in the order of the input.
C29_SplitHeaders ==
    (prog = "cleancsv" /\ Done /\ header_start_idx(df) # 0) =>
      LET f == header_start_idx(df) IN
      /\ status = "written"
      /\ \A j \in DOMAIN columns :
            Remove(columns[j], " ") =
               Remove(df[f][j] \o df[f + 1][j] \o df[f + 2][j], " ")
      /\ Len(columns) = Width(df)
      /\ Sources(output) = DOMAIN df \ InHeaderBlock(df)
      /\ Increasing(output)
      /\ \A r \in DOMAIN output : output[r].cells = df[output[r].src]

\* C29 witness: two header blocks are removed, and a single header row
\* outside a block and a transaction row are written.
C29_Witness ==
    /\ prog = "cleancsv" /\ Written
    /\ \E i, j \in DOMAIN df :
          i < j /\ is_split_header_block(df, i) /\ is_split_header_block(df, j)
    /\ \E r \in DOMAIN output : output[r].cells = SplitHeader[2]
    /\ \E r \in DOMAIN output : output[r].cells[1] = <<"D">>

(***************************************************************************)
(* clean_entry of clean_branch_code, project canara/scripts/               *)
(* 03_branchcode.py, applied to one value and then to its own result.  A   *)
(* text is a sequence of characters here: the digit 3, the letter a, a     *)
(* blank, the separator - and a full stop.                                 *)
(***************************************************************************)
BranchAlnum == {"3", "a"}

BranchSeparators == {"-"}

\* re.match(pattern, entry_str) with any text after the prefix taken as noise
BranchMatchesAnyTail(s) == Len(s) > 2 /\ s[1] = "3" /\ s[2] = "3"

\* line 34 and 40: re.match(r'^33[\s\n]*[/\\-]?\s*[\dA-Za-z]+.*$', entry_str)
BranchMatches(s) ==
    /\ Len(s) > 2 /\ s[1] = "3" /\ s[2] = "3"
    /\ LET after_blanks == LStrip(SubSeq(s, 3, Len(s)))
           after_separator ==
               IF after_blanks # <<>> /\ Head(after_blanks) \in BranchSeparators
               THEN LStrip(Tail(after_blanks))
               ELSE after_blanks
       IN after_separator # <<>> /\ Head(after_separator) \in BranchAlnum

\* lines 36-42
clean_entry(entry) ==
    IF isna(entry) THEN entry
    ELSE LET entry_str == Strip(Str(entry)) IN
         IF BranchMatches(entry_str) THEN <<"3", "3">> ELSE entry_str

BranchChars == BranchAlnum \cup BranchSeparators \cup {" ", "."}

BranchValues ==
    {NaN} \cup UNION {[1..n -> BranchChars] : n \in 0..(MaxCellLen + 2)}

InitBranch ==
    /\ prog = "branch"
    /\ Fresh
    /\ columns = <<>>
    /\ \E v \in BranchValues : df = << <<v>> >>

\* line 45: the scrub of the value
BranchClean ==
    /\ prog = "branch" /\ pc = "start"
    /\ df_corrected' = << <<clean_entry(df[1][1])>> >>
    /\ pc' = "again"
    /\ UNCHANGED <<files, requests, prog, df, columns, idx, header_found,
                   cleaned_df, current_row, consolidated_rows, output,
                   status, orphans>>

\* line 45: the scrub of the result
BranchCleanAgain ==
    /\ prog = "branch" /\ pc = "again"
    /\ output' = << <<clean_entry(df_corrected[1][1])>> >>
    /\ pc' = "done"
    /\ UNCHANGED <<files, requests, prog, df, columns, idx, header_found,
                   cleaned_df, current_row, consolidated_rows, df_corrected,
                   status, orphans>>

NextBranch == BranchClean \/ BranchCleanAgain

SpecBranch == InitBranch /\ [][NextBranch]_vars

\* the text is 33, then blanks with at most one separator among them, then
\* a letter or digit, then anything
NoisyBranchCode(s) ==
    /\ Len(s) > 2 /\ s[1] = "3" /\ s[2] = "3"
    /\ \E k \in 3..Len(s) :
          /\ s[k] \in BranchAlnum
          /\ \A j \in 3..(k - 1) : s[j] \in BranchSeparators \cup {" "}
          /\ Cardinality({j \in 3..(k - 1) : s[j] \in BranchSeparators}) <= 1

\* C30: clean_entry gives 33 for a value that, trimmed, is 33 followed by
\* an optional separator and further letters or digits; any other value
\* that is not missing comes back trimmed; and clean_entry of the result is
\* the result.
C30_BranchScrub ==
    /\ (prog = "branch" /\ pc # "start" /\ ~isna(df[1][1])) =>
          df_corrected[1][1] =
             IF NoisyBranchCode(Strip(df[1][1])) THEN <<"3", "3">>
             ELSE Strip(df[1][1])
    /\ (prog = "branch" /\ Done) => output = df_corrected

\* C30 witness: a value with blanks around it, a separator and a letter
\* after the prefix has become 33, and the second scrub has left 33.
C30_Witness ==
    /\ prog = "branch" /\ Done
    /\ df[1][1] = <<" ", "3", "3", "-", "a">>
    /\ output[1][1] = <<"3", "3">>
    /\ clean_entry(<<"3", "3", ".">>) = <<"3", "3", ".">>

(***************************************************************************)
(* The temp files of extract_and_process (project hdfc/app.py, project     *)
(* kotak/app.py, project canara/app.py).  Each request saves its upload,   *)
(* and its template if it has one, under a uuid name of its own.           *)
(* requests[r] is the position of request r (at), the template it carries  *)
(* (none, valid or invalid) and its response; files[r] tells which of its  *)
(* two temp files exist.                                                   *)
(***************************************************************************)
Templates == {"none", "valid", "invalid"}

InitTemp ==
    /\ prog \in Apps
    /\ files = [r \in Requests |-> [pdf |-> FALSE, template |-> FALSE]]
    /\ requests \in [Requests -> [at : {"start"}, template : Templates,
                                  response : {0}]]
    /\ df = <<>>
    /\ columns = <<>>
    /\ pc = "temp"
    /\ idx = 0
    /\ header_found = FALSE
    /\ cleaned_df = <<>>
    /\ current_row = <<>>
    /\ consolidated_rows = <<>>
    /\ df_corrected = <<>>
    /\ output = <<>>
    /\ status = "running"
    /\ orphans = {}

\* pdf_file.save(temp_pdf_path)
TempSavePdf(r) ==
    /\ pc = "temp" /\ requests[r].at = "start"
    /\ files' = [files EXCEPT ![r].pdf = TRUE]
    /\ requests' = [requests EXCEPT ![r].at = "template"]
    /\ AppUnchanged

\* template_file.save(temp_template_path), when a template was uploaded
TempSaveTemplate(r) ==
    /\ pc = "temp" /\ requests[r].at = "template"
    /\ IF requests[r].template = "none"
       THEN /\ files' = files
            /\ requests' = [requests EXCEPT ![r].at = "try"]
       ELSE /\ files' = [files EXCEPT ![r].template = TRUE]
            /\ requests' = [requests EXCEPT ![r].at = "validate"]
    /\ AppUnchanged

\* validate_template: an invalid template is removed and the request is
\* answered with 400, before the try statement is entered
TempValidate(r) ==
    /\ pc = "temp" /\ requests[r].at = "validate"
    /\ IF requests[r].template = "invalid"
       THEN /\ files' = [files EXCEPT ![r].template = FALSE]
            /\ requests' = [requests EXCEPT ![r].at = "done", ![r].response = 400]
       ELSE /\ files' = files
            /\ requests' = [requests EXCEPT ![r].at = "try"]
    /\ AppUnchanged

\* the try statement: the extraction and the stages succeed (200) or one of
\* them fails or raises (500); the response is set
TempTry(r) ==
    /\ pc = "temp" /\ requests[r].at = "try"
    /\ \E code \in {200, 500} :
          requests' = [requests EXCEPT ![r].at = "finally", ![r].response = code]
    /\ files' = files
    /\ AppUnchanged

\* the finally clause removes both temp files; the response is returned
TempFinally(r) ==
    /\ pc = "temp" /\ requests[r].at = "finally"
    /\ files' = [files EXCEPT ![r] = [pdf |-> FALSE, template |-> FALSE]]
    /\ requests' = [requests EXCEPT ![r].at = "done"]
    /\ AppUnchanged

NextTemp ==
    \E r \in Requests :
        \/ TempSavePdf(r)
        \/ TempSaveTemplate(r)
        \/ TempValidate(r)
        \/ TempTry(r)
        \/ TempFinally(r)

SpecTemp == InitTemp /\ [][NextTemp]_vars

\* C31: when the response of an /extract request that saved its upload is
\* returned, its temp PDF and its temp template are gone, whatever the
\* path: success, failure, exception or rejection of the template.
C31_TempFilesRemoved ==
    pc = "temp" =>
      \A r \in Requests :
          requests[r].at = "done" => ~files[r].pdf /\ ~files[r].template

(***************************************************************************)
(* The pipeline of project kotak/app.py over requests served one after the *)
(* other (pc "pipeline").  files[k] is the request whose upload the file   *)
(* that script k writes derives from, 0 while the file does not exist;     *)
(* files[0] is the extracted table.  Scripts 1 to 3 (01_cleancsv.py,       *)
(* mergenarr.py, split.py) catch their own errors, print them and exit     *)
(* with code 0 without writing; 04_delete_empt_row.py exits with code 1.   *)
(* Every script exits with code 1 when its input file does not exist.      *)
(* requests[r].failed tells that a script of request r wrote no output.    *)
(***************************************************************************)
SilentScripts == 1..3

InitServe ==
    /\ prog = "kotak"
    /\ files = [k \in {0} \cup PipelineSteps("kotak") |-> 0]
    /\ requests = [r \in Requests |->
                      [at |-> "start", step |-> 0, data |-> 0,
                       failed |-> FALSE, response |-> 0]]
    /\ df = <<>>
    /\ columns = <<>>
    /\ pc = "pipeline"
    /\ idx = 0
    /\ header_found = FALSE
    /\ cleaned_df = <<>>
    /\ current_row = <<>>
    /\ consolidated_rows = <<>>
    /\ df_corrected = <<>>
    /\ output = <<>>
    /\ status = "running"
    /\ orphans = {}

\* request r is served when the requests before it are answered
ServeTurn(r) ==
    /\ pc = "pipeline"
    /\ \A q \in Requests : q < r => requests[q].at = "done"

\* tabula runs on the upload: a non-zero return code is answered with 500,
\* otherwise the extracted text is written to extracted_csv
ServeExtract(r) ==
    /\ ServeTurn(r) /\ requests[r].at = "start"
    /\ \/ /\ requests' = [requests EXCEPT ![r].at = "done", ![r].response = 500]
          /\ files' = files
       \/ /\ requests' = [requests EXCEPT ![r].at = "run", ![r].step = 1]
          /\ files' = [files EXCEPT ![0] = r]
    /\ AppUnchanged

\* what follows script k of request r when it exited with code 0
ServeAfter(r, k, failed) ==
    [requests EXCEPT ![r].at = IF k + 1 \in PipelineSteps("kotak")
                               THEN "run" ELSE "send",
                     ![r].step = IF k + 1 \in PipelineSteps("kotak")
                                 THEN k + 1 ELSE k,
                     ![r].failed = requests[r].failed \/ failed]

\* subprocess.run([... script k ...], check=True)
ServeScript(r) ==
    LET k == requests[r].step IN
    /\ ServeTurn(r) /\ requests[r].at = "run"
    /\ IF files[k - 1] = 0
       THEN \* the script finds no input file and exits with code 1
            /\ requests' = [requests EXCEPT ![r].at = "done", ![r].response = 500,
                                            ![r].failed = TRUE]
            /\ files' = files
       ELSE \/ \* the script writes its output from its input
               /\ files' = [files EXCEPT ![k] = files[k - 1]]
               /\ requests' = ServeAfter(r, k, FALSE)
            \/ \* the script fails and writes nothing
               /\ files' = files
               /\ requests' =
                     IF k \in SilentScripts
                     THEN ServeAfter(r, k, TRUE)
                     ELSE [requests EXCEPT ![r].at = "done", ![r].response = 500,
                                           ![r].failed = TRUE]
    /\ AppUnchanged

\* send_file(processed_csv); a missing file raises and is answered with 500
ServeSend(r) ==
    LET k == requests[r].step IN
    /\ ServeTurn(r) /\ requests[r].at = "send"
    /\ requests' =
          IF files[k] = 0
          THEN [requests EXCEPT ![r].at = "done", ![r].response = 500]
          ELSE [requests EXCEPT ![r].at = "done", ![r].response = 200,
                                ![r].data = files[k]]
    /\ files' = files
    /\ AppUnchanged

NextServe ==
    \E r \in Requests :
        \/ ServeExtract(r)
        \/ ServeScript(r)
        \/ ServeSend(r)

SpecServe == InitServe /\ [][NextServe]_vars

\* C32: a Kotak request one of whose scripts wrote no output is answered
\* with an error, and a file that is returned derives from the upload of
\* the request itself, never from an earlier request's.
C32_NoStaleResponse ==
    pc = "pipeline" =>
      \A r \in Requests :
          requests[r].at = "done" =>
              /\ requests[r].failed => requests[r].response = 500
              /\ requests[r].response = 200 => requests[r].data = r

\* the cells of a row that are not blank, in order
NonBlankCells(cells) ==
    LET at == Detected(cells, {c \in DOMAIN cells : Strip(cells[c]) # <<>>})
    IN [k \in DOMAIN at |-> cells[at[k]]]

\* C33: whatever the number of detected columns without a name, every cell
\* of an input row that is not blank is in the same row of the output, in
\* the same order; only blank cells are removed.
C33_NoDataDeleted ==
    (prog \in IdentProgs /\ Written) =>
      /\ Len(output.rows) = Len(df)
      /\ \A i \in DOMAIN df :
            NonBlankCells(output.rows[i]) = NonBlankCells(df[i])

(***************************************************************************)
(* The pipeline of project canara/app.py on one extracted table: 01_clean, *)
(* 02_consolidate, 03_branchcode.  files holds the extracted table as      *)
(* csv.reader gives it, every cell a text; requests is the number of the   *)
(* script that runs next; df is the table that 01_clean.py writes, as      *)
(* pd.read_csv(header=None) gives it to 02_consolidate.py.                 *)
(***************************************************************************)
\* 01_clean.py line 34: the row has no cell with text
CleanIsBlank(row) == \A c \in DOMAIN row : Strip(row[c]) = <<>>

\* line 37: row[0].strip().lower() == "txn date"
CleanIsHeader(row) == Lower(Strip(row[1])) = Lower(EXPECTED_COLUMNS[1])

\* lines 33-45: the positions of the rows that clean_transaction_csv writes:
\* the first header row and the rows that is_valid_txn_row takes
CleanKept(table) ==
    Detected(table,
        {i \in DOMAIN table :
            /\ ~CleanIsBlank(table[i])
            /\ IF CleanIsHeader(table[i])
               THEN \A j \in 1..(i - 1) :
                        CleanIsBlank(table[j]) \/ ~CleanIsHeader(table[j])
               ELSE is_valid_txn_row(table[i])})

clean_transaction_csv(table) ==
    [k \in DOMAIN CleanKept(table) |-> table[CleanKept(table)[k]]]

\* 03_branchcode.py: pd.read_csv reads an empty cell and the text nan as
\* NaN, clean_entry is applied to the Branch Code, to_csv writes NaN as the
\* empty text
BranchCsvCells(cells) ==
    [c \in DOMAIN cells |->
        IF isna(cells[c]) \/ cells[c] \in {<<>>, <<"nan">>} THEN <<>>
        ELSE IF c = 5 THEN clean_entry(cells[c])
        ELSE cells[c]]

PipeDateRows ==
    { << <<"D">>, <<"D">>, <<>>, <<"a">>, <<"3", "3", "-", "a">>, <<"1">>, <<>>, <<"2">> >>,
      << <<"D">>, <<>>, <<>>, <<>>, <<>>, <<>>, <<"4">>, <<"2">> >> }

PipeOtherRows ==
    { << <<>>, <<>>, <<>>, <<"c", " ", " ", "c">>, <<>>, <<>>, <<>>, <<>> >>,
      << <<>>, <<>>, <<>>, <<" ">>, <<>>, <<>>, <<>>, <<>> >> }

PipeRows == {EXPECTED_COLUMNS} \cup PipeDateRows \cup PipeOtherRows

InitPipe ==
    /\ prog = "canara"
    /\ files \in Tables(PipeRows, MaxRows)
    /\ requests = 1
    /\ df = <<>>
    /\ columns = <<>>
    /\ pc = "clean"
    /\ idx = 0
    /\ header_found = FALSE
    /\ cleaned_df = <<>>
    /\ current_row = <<>>
    /\ consolidated_rows = <<>>
    /\ df_corrected = <<>>
    /\ output = <<>>
    /\ status = "running"
    /\ orphans = {}

\* ("Clean CSV", 01_clean.py): the rows kept are written, and read by the
\* next script; a table without rows cannot be read and ends the pipeline
PipeClean ==
    /\ prog = "canara" /\ pc = "clean" /\ requests = 1
    /\ df' = [k \in DOMAIN clean_transaction_csv(files) |->
                 [c \in DOMAIN clean_transaction_csv(files)[k] |->
                     ReadCell(clean_transaction_csv(files)[k][c])]]
    /\ IF clean_transaction_csv(files) = <<>>
       THEN pc' = "done" /\ status' = "error" /\ requests' = requests
       ELSE pc' = "start" /\ status' = status /\ requests' = 2
    /\ UNCHANGED <<files, prog, columns, idx, header_found, cleaned_df,
                   current_row, consolidated_rows, df_corrected, output,
                   orphans>>

\* ("Add Branch Code", 03_branchcode.py) on the table 02_consolidate.py wrote
PipeBranch ==
    /\ prog = "canara" /\ pc = "done" /\ status = "written" /\ requests = 2
    /\ output' = [r \in DOMAIN output |->
                     [output[r] EXCEPT !.cells = BranchCsvCells(output[r].cells)]]
    /\ requests' = 3
    /\ UNCHANGED <<files, prog, df, columns, pc, idx, header_found, cleaned_df,
                   current_row, consolidated_rows, df_corrected, status,
                   orphans>>

NextPipe == PipeClean \/ NextCanara \/ PipeBranch

SpecPipe == InitPipe /\ [][NextPipe]_vars

\* the text s is in the text t, as one piece
IsInfix(s, t) ==
    \E k \in 0..(Len(t) - Len(s)) : SubSeq(t, k + 1, k + Len(s)) = s

\* a row of the extracted table that continues the transaction before it
PipeIsContinuation(row) ==
    /\ ~CleanIsBlank(row) /\ ~CleanIsHeader(row) /\ Strip(row[1]) = <<>>
    /\ Strip(row[4]) # <<>>

\* C34: when the Canara pipeline has run on a table that begins with the
\* header, the description of a continuation row that follows a transaction
\* row is in the Description of that transaction in the final output.
C34_ContinuationReachesOutput ==
    (prog = "canara" /\ requests = 3 /\ CleanIsHeader(files[1])) =>
      \A t \in DOMAIN files :
          (/\ t + 1 \in DOMAIN files
           /\ is_valid_txn_row(files[t])
           /\ PipeIsContinuation(files[t + 1])) =>
              \E r \in DOMAIN output :
                  /\ CleanKept(files)[output[r].src] = t
                  /\ IsInfix(Strip(Collapse(files[t + 1][4])), output[r].cells[4])

\* C35: the description that a consolidator writes for a record is the
\* description consolidated for it, a blank one taken as the empty text,
\* with every run of blanks as one blank and the ends trimmed; a blank
\* description is written blank.
C35_BlankDescriptionStaysBlank ==
    (prog \in {"root", "canara"} /\ Written) =>
      LET description == IF prog = "canara" THEN 4 ELSE 2 IN
      \A r \in DOMAIN output :
          \E q \in DOMAIN consolidated_rows :
              /\ consolidated_rows[q].src = output[r].src
              /\ output[r].cells[description]
                    = Strip(Collapse(Text(consolidated_rows[q].cells[description])))

\* the rows that fix_csv_data_shift has repaired so far
ShiftRepaired == {problematic_indices[k] : k \in 1..(idx - 1)}

\* C36: while fix_csv_data_shift repairs rows, before the numeric cleanup:
\* a row that is not repaired, one with text in its Chq/Ref cell among
\* them, has every cell as read; a repaired row has the cells left of the
\* Chq/Ref column as read, the cells right of it one place to the left and
\* an empty last cell, so its non-blank values are those read, in order;
\* each row is made from its own cells only.
C36_RepairFrame ==
    (prog = "shift" /\ pc = "fix") =>
      LET pos == chq_ref_pos(columns) IN
      /\ Len(df_corrected) = Len(df)
      /\ \A r \in DOMAIN df :
            /\ Strip(df[r][pos]) # <<>> => r \notin ShiftRepaired
            /\ r \notin ShiftRepaired => df_corrected[r] = df[r]
            /\ r \in ShiftRepaired =>
                  /\ df_corrected[r] =
                        SubSeq(df[r], 1, pos - 1)
                           \o SubSeq(df[r], pos + 1, Len(df[r])) \o << <<>> >>
                  /\ NonBlankCells(df_corrected[r]) = NonBlankCells(df[r])

\* C36 witness: of two different rows the first is repaired, with values
\* right of its empty Chq/Ref cell, and the second has text in that cell.
C36_Witness ==
    /\ prog = "shift" /\ pc = "fix" /\ Len(df) = 2
    /\ idx > Len(problematic_indices)
    /\ ShiftRepaired = {1}
    /\ df[1][3] # <<>> /\ df[1][5] # <<>>
    /\ df[2][2] = <<"r">>
    /\ df_corrected[1] # df[1]

(***************************************************************************)
(* The pipeline loop of extract_and_process, project hdfc/app.py, for one  *)
(* request (pc "stages").  files[k] tells whether the output file of stage *)
(* k exists, files[0] the extracted table; the files of stages 1 to 4 may  *)
(* exist from an earlier run.  requests is the request: its position (at), *)
(* the stage it is at (step), the stages run so far with what              *)
(* run_script_with_logging returned for each (ran), and its response.      *)
(***************************************************************************)
StageNames == <<"Clean CSV", "Merge Narration", "Shift HDFC", "Closing Balance">>

InitStages ==
    /\ prog = "hdfc"
    /\ files \in [{0} \cup DOMAIN StageNames -> BOOLEAN]
    /\ requests = [at |-> "start", step |-> 0, ran |-> <<>>,
                   response |-> [code |-> 0, step |-> "none"]]
    /\ df = <<>>
    /\ columns = <<>>
    /\ pc = "stages"
    /\ idx = 0
    /\ header_found = FALSE
    /\ cleaned_df = <<>>
    /\ current_row = <<>>
    /\ consolidated_rows = <<>>
    /\ df_corrected = <<>>
    /\ output = <<>>
    /\ status = "running"
    /\ orphans = {}

StageError(req, name) ==
    [req EXCEPT !.at = "done", !.response = [code |-> 500, step |-> name]]

\* tabula: a non-zero return code is answered with 500; otherwise the
\* extracted text is written to extracted_csv
StageExtract ==
    /\ prog = "hdfc" /\ pc = "stages" /\ requests.at = "start"
    /\ \/ /\ requests' = StageError(requests, "none")
          /\ files' = files
       \/ /\ requests' = [requests EXCEPT !.at = "loop", !.step = 1]
          /\ files' = [files EXCEPT ![0] = TRUE]
    /\ AppUnchanged

\* what follows a stage that ran although the stage reported a failure
StageResultUnchecked(req, k, success, created) ==
    IF ~created
    THEN StageError(req, StageNames[k])
    ELSE IF k < Len(StageNames)
    THEN [req EXCEPT !.step = k + 1]
    ELSE [req EXCEPT !.at = "final"]

\* lines 173-192: what follows the run of stage k: an error response that
\* names the stage when run_script_with_logging returned no success or the
\* output file does not exist, the next stage otherwise
StageResult(req, k, success, created) ==
    IF ~success \/ ~created
    THEN StageError(req, StageNames[k])
    ELSE IF k < Len(StageNames)
    THEN [req EXCEPT !.step = k + 1]
    ELSE [req EXCEPT !.at = "final"]

\* one turn of the loop over pipeline_steps: the input file is looked for,
\* the script is run and the output file is looked for.  The script exits
\* with code 0 after writing its output, or with code 0 without writing, or
\* with another code or not in time
StageRun ==
    LET k == requests.step IN
    /\ prog = "hdfc" /\ pc = "stages" /\ requests.at = "loop"
    /\ IF ~files[k - 1]
       THEN /\ requests' = StageError(requests, StageNames[k])
            /\ files' = files
       ELSE \E success \in BOOLEAN, written \in BOOLEAN :
               /\ files' = [files EXCEPT ![k] = files[k] \/ written]
               /\ requests' =
                     StageResult(
                        [requests EXCEPT
                            !.ran = Append(requests.ran,
                                       [name |-> StageNames[k], ok |-> success])],
                        k, success, files[k] \/ written)
    /\ AppUnchanged

\* lines 194-205: the final file is looked for and must have content
StageSend ==
    /\ prog = "hdfc" /\ pc = "stages" /\ requests.at = "final"
    /\ \E empty \in BOOLEAN :
          requests' =
             IF ~files[Len(StageNames)] \/ empty
             THEN StageError(requests, "none")
             ELSE [requests EXCEPT !.at = "done",
                                   !.response = [code |-> 200, step |-> "none"]]
    /\ files' = files
    /\ AppUnchanged

NextStages == StageExtract \/ StageRun \/ StageSend

SpecStages == InitStages /\ [][NextStages]_vars

\* C37: the stages of the HDFC pipeline run in the order Clean CSV, Merge
\* Narration, Shift HDFC, Closing Balance; a stage runs only after the one
\* before it returned success and the output file of that one exists; no
\* stage runs after one that failed, and the response is then an error that
\* names that stage; a file is returned only after all four succeeded.
C37_StageOrder ==
    (prog = "hdfc" /\ pc = "stages") =>
      LET ran == requests.ran IN
      /\ Len(ran) <= Len(StageNames)
      /\ \A i \in DOMAIN ran :
            /\ ran[i].name = StageNames[i]
            /\ i > 1 => ran[i - 1].ok /\ files[i - 1]
            /\ ~ran[i].ok =>
                  /\ i = Len(ran)
                  /\ requests.at = "done"
                  /\ requests.response = [code |-> 500, step |-> StageNames[i]]
      /\ requests.response.code = 200 =>
            /\ Len(ran) = Len(StageNames)
            /\ \A i \in DOMAIN ran : ran[i].ok /\ files[i]

\* C37 witness: the third stage failed after two stages that succeeded; the
\* fourth did not run although its input file exists, and the response is
\* an error that names Shift HDFC.
C37_Witness ==
    /\ prog = "hdfc" /\ pc = "stages" /\ requests.at = "done"
    /\ Len(requests.ran) = 3
    /\ requests.ran[1].ok /\ requests.ran[2].ok /\ ~requests.ran[3].ok
    /\ files[3]
    /\ requests.response = [code |-> 500, step |-> "Shift HDFC"]

(***************************************************************************)
(* CSVCleaner.clean_csv, src/try/column.py (prog "column").  df is the     *)
(* table as csv.reader gives it, every cell a text; orphans holds          *)
(* all_empty_columns, the positions found so far; output is the table      *)
(* that clean_csv returns.  Positions count from 1.                        *)
(***************************************************************************)
target_headers ==
    << "date", "particulars", "withdrawals", "deposits", "balance" >>

\* line 32: the text in lower case without blanks and underscores
normalize_header(header) == Remove(Remove(Lower(Strip(header)), " "), "_")

\* line 46: target_header in cell or cell in target_header; the empty text
\* is in every text
HeaderHit(cell, target_header) ==
    \/ Contains(cell, target_header)
    \/ cell = <<>>
    \/ Len(cell) = 1 /\ WordHas(target_header, cell[1])

\* lines 40-48: for each target header that some cell answers to, the
\* position of the first such cell
header_positions(row) ==
    LET first == [t \in DOMAIN target_headers |->
                     FirstWhere({i \in DOMAIN row :
                        HeaderHit(normalize_header(row[i]), target_headers[t])})]
    IN SelectSeq(first, LAMBDA p : p # 0)

\* lines 36-52
is_header_row(row) == Len(row) >= 4 /\ Len(header_positions(row)) >= 4

\* lines 54-63: the rows that begin a section
find_header_sections(data) ==
    Detected(data, {i \in DOMAIN data : is_header_row(data[i])})

\* lines 65-81: the positions of the first header with five of them, or of
\* the first header
find_expected_column_positions(data) ==
    LET sections == find_header_sections(data)
        perfect == {k \in DOMAIN sections :
                       Len(header_positions(data[sections[k]])) = 5}
    IN IF perfect # {}
       THEN header_positions(data[sections[FirstWhere(perfect)]])
       ELSE header_positions(data[sections[1]])

\* lines 105-106 and 145-146: the cell counts as empty
ColumnCellEmpty(value) ==
    LET cell_value == Strip(value) IN
    cell_value = <<>> \/ cell_value = <<"0">> \/ Lower(cell_value) = <<"null">>

\* the rows after the header of section k, up to the next header
SectionRows(data, k) ==
    LET sections == find_header_sections(data) IN
    (sections[k] + 1)..(IF k < Len(sections) THEN sections[k + 1] - 1
                        ELSE Len(data))

\* lines 125-151: the positions that section k adds to all_empty_columns
SectionEmptyColumns(data, k) ==
    LET header_row == data[find_header_sections(data)[k]] IN
    IF Len(header_row) > Len(find_expected_column_positions(data))
    THEN {c \in DOMAIN header_row :
            /\ <<Lower(Strip(header_row[c]))>> \notin
                  {<< <<target_headers[t]>> >> : t \in DOMAIN target_headers}
            /\ \A r \in SectionRows(data, k) :
                  c <= Len(data[r]) => ColumnCellEmpty(data[r][c])}
    ELSE {}

\* lines 155-171: every row loses its cells at the positions given
remove_empty_columns(data, empty_columns) ==
    [r \in DOMAIN data |->
        LET kept == Detected(data[r], DOMAIN data[r] \ empty_columns)
        IN [k \in DOMAIN kept |-> data[r][kept[k]]]]

ColumnHeaders ==
    { << <<"Date">>, <<>>, <<"Particulars">>, <<"Withdrawals">>, <<"Deposits">>,
         <<"Balance">> >>,
      << <<"Date">>, <<"Particulars">>, <<"Withdrawals">>, <<"Deposits">>,
         <<"Balance">> >> }

ColumnDataRows ==
    { << <<"D">>, <<"0">>, <<"N">>, <<"1">>, <<"2">>, <<"3">> >>,
      << <<"D">>, <<"x">>, <<"N">>, <<"1">>, <<"2">>, <<"3">> >>,
      << <<"D">>, <<>>, <<"N">>, <<"1">>, <<" ">>, <<"3">> >>,
      << <<"D">>, <<"N">>, <<"1">>, <<"2">>, <<"3">> >> }

InitColumn ==
    /\ prog = "column"
    /\ Fresh
    /\ columns = <<>>
    /\ df \in Tables(ColumnHeaders \cup ColumnDataRows, MaxRows)

\* lines 176-193: without a header row the table is returned as read
ColumnFindSections ==
    /\ prog = "column" /\ pc = "start"
    /\ idx' = 1
    /\ IF find_header_sections(df) = <<>>
       THEN output' = df /\ status' = "written" /\ pc' = "done"
       ELSE output' = output /\ status' = status /\ pc' = "scan"
    /\ UNCHANGED <<files, requests, prog, df, columns, header_found, cleaned_df,
                   current_row, consolidated_rows, df_corrected, orphans>>

\* lines 125-151: one section is scanned by find_all_empty_columns
ColumnScanSection ==
    /\ prog = "column" /\ pc = "scan" /\ idx <= Len(find_header_sections(df))
    /\ orphans' = orphans \cup SectionEmptyColumns(df, idx)
    /\ idx' = idx + 1
    /\ UNCHANGED <<files, requests, prog, df, columns, pc, header_found,
                   cleaned_df, current_row, consolidated_rows, df_corrected,
                   output, status>>

\* lines 199-225: the positions found are removed from every row
ColumnRemove ==
    /\ prog = "column" /\ pc = "scan" /\ idx > Len(find_header_sections(df))
    /\ output' = remove_empty_columns(df, orphans)
    /\ status' = "written"
    /\ pc' = "done"
    /\ UNCHANGED <<files, requests, prog, df, columns, idx, header_found,
                   cleaned_df, current_row, consolidated_rows, df_corrected,
                   orphans>>

NextColumn == ColumnFindSections \/ ColumnScanSection \/ ColumnRemove

SpecColumn == InitColumn /\ [][NextColumn]_vars

\* C38: a position that clean_csv removes holds no data: in every row after
\* the header of any section the cell at that position is empty, '0' or
\* 'null'; a position found empty in one section is not removed from the
\* rows of another section that hold data there.
C38_OnlyEmptyColumnsRemoved ==
    (prog = "column" /\ Written) =>
      \A c \in orphans :
          \A k \in DOMAIN find_header_sections(df) :
              \A r \in SectionRows(df, k) :
                  c <= Len(df[r]) => ColumnCellEmpty(df[r][c])

(***************************************************************************)
(* The pass of clean_bank_statement_csv, project kotak/scripts/split.py,   *)
(* that splits merged date-narration entries (lines 53-114; prog "split"). *)
(* The table is read with dtype=str and keep_default_na=False.  In a cell  *)
(* text "D" is a date written as 01-04-2024 and the words are separated by *)
(* blanks.  df_corrected is the data frame the pass works in, idx the row  *)
(* i of the outer loop, header_found the position of date_col,            *)
(* current_row the record of the merged row that is                       *)
(* open (the row j looked at, chq_ref_value, narration_parts), and         *)
(* consolidated_rows the list of the rows absorbed, each with the row that *)
(* absorbed it.                                                            *)
(***************************************************************************)
SplitStopWords == {"to", "from", "by", "for", "the", "and", "of", "in", "on", "at"}

SplitHeaderWords ==
    {"date", "narration", "withdrawal", "deposit", "balance", "chq/ref"}

\* line 53 and 60-61: re.match(r'^(\d{2}-\d{2}-\d{4})\s+', entry_str)
SplitMerged(entry) ==
    LET entry_str == Strip(entry) IN
    Len(entry_str) >= 2 /\ entry_str[1] \in TxnDateLiterals /\ entry_str[2] = " "

\* lines 63 and 71: the words of the text after the date
SplitParts(entry) ==
    LET remaining_text == Strip(SubSeq(Strip(entry), 3, Len(Strip(entry))))
    IN [k \in DOMAIN Remove(remaining_text, " ") |->
           <<Remove(remaining_text, " ")[k]>>]

\* lines 75-77: the first word is taken for the Chq/Ref value
SplitIsChqRef(first_part) ==
    \/ first_part[1] \in Digits
    \/ LowerTok(first_part[1]) \notin SplitStopWords

\* a row after a merged row continues it when its date cell has any text
SplitContinuesAnyText(next_entry) == Strip(next_entry) # <<>>

\* lines 89-91: the next row continues the narration
SplitContinues(next_entry) ==
    /\ ~(Strip(next_entry) # <<>> /\ Head(Strip(next_entry)) \in TxnDateLiterals)
    /\ Strip(next_entry) # <<>>
    /\ ~(Len(Strip(next_entry)) = 1
           /\ LowerTok(Strip(next_entry)[1]) \in SplitHeaderWords)

SplitLayouts ==
    { << <<"Date">>, <<"Chq./Ref.No.">>, <<"Narration">> >>,
      << <<"Day">>, <<"Chq./Ref.No.">>, <<"Narration">> >> }

SplitDateCells ==
    { <<>>, <<"D">>, <<"D", " ", "x">>, <<"D", " ", "to">>, <<"D", "x">>,
      <<"x">>, <<"to", " ", "x">>, <<"date">> }

SplitRows == { << date, <<>>, <<"n">> >> : date \in SplitDateCells }

\* lines 33-37: the first column with date in its label, 0 without one
SplitDateCol(names) ==
    FirstWhere({c \in DOMAIN names : Contains(Lower(names[c]), "date")})

InitSplit ==
    /\ prog = "split"
    /\ df = <<>>
    /\ columns = <<>>
    /\ pc = "read"
    /\ idx = 0
    /\ header_found = 0
    /\ cleaned_df = <<>>
    /\ current_row = <<>>
    /\ consolidated_rows = <<>>
    /\ df_corrected = <<>>
    /\ output = <<>>
    /\ status = "running"
    /\ orphans = {}
    /\ files = <<>>
    /\ requests = <<>>

\* line 11: pd.read_csv(input_file, dtype=str, keep_default_na=False)
SplitRead ==
    /\ prog = "split" /\ pc = "read"
    /\ \E names \in SplitLayouts, table \in Tables(SplitRows, MaxRows - 1) :
          /\ df' = table
          /\ columns' = names
    /\ pc' = "start"
    /\ UNCHANGED <<files, requests, prog, idx, header_found, cleaned_df,
                   current_row, consolidated_rows, df_corrected, output, status,
                   orphans>>

\* lines 33-56: without a date column the pass is left out
SplitStart ==
    /\ prog = "split" /\ pc = "start"
    /\ df_corrected' = df
    /\ idx' = 1
    /\ header_found' = SplitDateCol(columns)
    /\ IF SplitDateCol(columns) = 0
       THEN pc' = "done" /\ status' = "written"
       ELSE pc' = "pass" /\ status' = status
    /\ UNCHANGED <<files, requests, prog, df, columns, cleaned_df,
                   current_row, consolidated_rows, output, orphans>>

\* lines 56-61 and 114: a row whose entry is not merged is passed
SplitPassRow ==
    /\ prog = "split" /\ pc = "pass" /\ idx <= Len(df_corrected)
    /\ ~SplitMerged(df_corrected[idx][header_found])
    /\ idx' = idx + 1
    /\ UNCHANGED <<files, requests, prog, df, columns, pc, header_found,
                   cleaned_df, current_row, consolidated_rows, df_corrected,
                   output, status, orphans>>

\* lines 62-84: the record of a merged entry of row i: the first word is the
\* Chq/Ref value or the first word of the narration
SplitOpened(entry, i) ==
    IF SplitParts(entry) # <<>> /\ SplitIsChqRef(SplitParts(entry)[1])
    THEN [j |-> i + 1, chq_ref_value |-> SplitParts(entry)[1],
          narration_parts |-> Tail(SplitParts(entry))]
    ELSE [j |-> i + 1, chq_ref_value |-> <<>>,
          narration_parts |-> SplitParts(entry)]

\* lines 56-84: a merged entry is taken apart
SplitOpenRow ==
    /\ prog = "split" /\ pc = "pass" /\ idx <= Len(df_corrected)
    /\ SplitMerged(df_corrected[idx][header_found])
    /\ current_row' =
          <<SplitOpened(df_corrected[idx][header_found], idx)>>
    /\ pc' = "ahead"
    /\ UNCHANGED <<files, requests, prog, df, columns, idx, header_found,
                   cleaned_df, consolidated_rows, df_corrected, output, status,
                   orphans>>

\* lines 85-96: the next row continues the narration and its date cell is
\* cleared
SplitAbsorb ==
    /\ prog = "split" /\ pc = "ahead"
    /\ LET j == current_row[1].j
           date == header_found
       IN /\ j <= Len(df_corrected)
          /\ SplitContinues(df_corrected[j][date])
          /\ current_row' =
                << [current_row[1] EXCEPT
                      !.j = j + 1,
                      !.narration_parts =
                          Append(current_row[1].narration_parts,
                                 Strip(df_corrected[j][date]))] >>
          /\ df_corrected' = [df_corrected EXCEPT ![j][date] = <<>>]
          /\ consolidated_rows' =
                Append(consolidated_rows, [row |-> j, into |-> idx])
    /\ UNCHANGED <<files, requests, prog, df, columns, pc, idx, header_found,
                   cleaned_df, output, status, orphans>>

\* lines 97-114: the look ahead ends; the date, the Chq/Ref value and the
\* narration of the merged row are written
SplitCloseRow ==
    /\ prog = "split" /\ pc = "ahead"
    /\ LET j == current_row[1].j
           date == header_found
           chq == chq_ref_pos(columns)
           narration == FirstWhere({c \in DOMAIN columns :
                                       columns[c] = <<"Narration">>})
       IN /\ IF j <= Len(df_corrected)
             THEN ~SplitContinues(df_corrected[j][date])
             ELSE TRUE
          /\ df_corrected' =
                [df_corrected EXCEPT ![idx] =
                    [c \in DOMAIN df_corrected[idx] |->
                        IF c = narration
                        THEN Strip(JoinBySpace(current_row[1].narration_parts))
                        ELSE IF c = chq /\ current_row[1].chq_ref_value # <<>>
                        THEN current_row[1].chq_ref_value
                        ELSE IF c = date
                        THEN <<Strip(df_corrected[idx][date])[1]>>
                        ELSE df_corrected[idx][c]]]
    /\ current_row' = <<>>
    /\ idx' = idx + 1
    /\ pc' = "pass"
    /\ UNCHANGED <<files, requests, prog, df, columns, header_found, cleaned_df,
                   consolidated_rows, output, status, orphans>>

\* line 56: the outer loop ends after the last row
SplitEnd ==
    /\ prog = "split" /\ pc = "pass" /\ idx > Len(df_corrected)
    /\ output' = df_corrected
    /\ status' = "written"
    /\ pc' = "done"
    /\ UNCHANGED <<files, requests, prog, df, columns, idx, header_found,
                   cleaned_df, current_row, consolidated_rows, df_corrected,
                   orphans>>

NextSplit ==
    \/ SplitRead
    \/ SplitStart
    \/ SplitPassRow
    \/ SplitOpenRow
    \/ SplitAbsorb
    \/ SplitCloseRow
    \/ SplitEnd

\* the loops are run to their end
SpecSplit == InitSplit /\ [][NextSplit]_vars /\ WF_vars(NextSplit)

\* a row absorbed has a date cell with text that begins with no date; the
\* row that absorbed it is the nearest merged date row before it; its date
\* cell is empty afterwards and it is absorbed once
SplitAbsorbedOnce ==
    (prog = "split" /\ pc # "read") =>
      LET date == SplitDateCol(columns) IN
      /\ \A a \in DOMAIN consolidated_rows :
            LET j == consolidated_rows[a].row
                i == consolidated_rows[a].into
            IN /\ i < j
               /\ Strip(df[j][date]) # <<>>
               /\ Head(Strip(df[j][date])) \notin TxnDateLiterals
               /\ Len(Strip(df[i][date])) >= 2
               /\ Strip(df[i][date])[1] \in TxnDateLiterals
               /\ Strip(df[i][date])[2] = " "
               /\ \A m \in (i + 1)..(j - 1) :
                     Head(Strip(df[m][date])) \notin TxnDateLiterals
               /\ df_corrected[j][date] = <<>>
               /\ \A b \in DOMAIN consolidated_rows :
                     consolidated_rows[b].row = j => b = a
               /\ Done => IsInfix(Strip(df[j][date]), output[i][3])

\* C39: the date-narration pass of split.py ends for every table, and a
\* continuation row is absorbed at most once, by the nearest merged date
\* row before it, after which its date cell is empty.
C39_SplitPassEnds == []SplitAbsorbedOnce /\ <>Done

\* C39 witness: the pass has ended after a merged date row absorbed the two
\* rows that follow it.
C39_Witness ==
    /\ prog = "split" /\ Done
    /\ Len(df) = 3
    /\ Len(consolidated_rows) = 2
    /\ consolidated_rows[1].into = 1 /\ consolidated_rows[2].into = 1

====
